---- MODULE Spec2Model ----
(***************************************************************************)
(* Model of the ticket pipeline of chat_agents_system (and of its older    *)
(* obungi_chat_agents_system variant): the identity-completion gate, the   *)
(* thread/session state store and the three entry points that use them     *)
(* (the HTTP route, the conversational tool, the older conversational      *)
(* tool).                                                                  *)
(*                                                                         *)
(* Texts are sequences of one-character strings, so that strip(), the      *)
(* identity pattern and the message fingerprint are computed from the      *)
(* characters.  Python's None is the value None; "falsy" values (None and  *)
(* the empty text) are told apart from the others by Truthy.               *)
(***************************************************************************)
EXTENDS Integers, Sequences, FiniteSets, Bags, TLC

\* Number of requests that may be in flight (between the read of the session
\* state and the write that follows the workflow run) at the same time.
MaxInFlight == 2

\* Python's None.  Every str | None value of the program is a sequence here, so
\* that any two of them can be compared.
None == <<"None">>

\* bool(x) of a str | None value: None and the empty text are falsy.
Truthy(x) == x # None /\ x # << >>

(***************************************************************************)
(* Characters and texts                                                    *)
(***************************************************************************)
Lowers ==
    <<"a", "b", "c", "d", "e", "f", "g", "h", "i", "j", "k", "l", "m",
      "n", "o", "p", "q", "r", "s", "t", "u", "v", "w", "x", "y", "z",
      "ä", "ö", "ü">>
Uppers ==
    <<"A", "B", "C", "D", "E", "F", "G", "H", "I", "J", "K", "L", "M",
      "N", "O", "P", "Q", "R", "S", "T", "U", "V", "W", "X", "Y", "Z",
      "Ä", "Ö", "Ü">>
Numerals == <<"0", "1", "2", "3", "4", "5", "6", "7", "8", "9">>
Others == <<" ", "\n", ",", ";", ":", "@", ".", "-", "_", "%", "+", "ß">>

\* Every character a text of the model may hold.
Alphabet == Lowers \o Uppers \o Numerals \o Others

\* [a-z] and [A-Z]; under re.IGNORECASE each of the two classes is RegexLetters
LowerLetters == {Lowers[i] : i \in 1..26}
UpperLetters == {Uppers[i] : i \in 1..26}
RegexLetters == LowerLetters \cup UpperLetters
\* [A-Za-zÄÖÜäöüß]
NameLetters == RegexLetters \cup {"ä", "ö", "ü", "Ä", "Ö", "Ü", "ß"}
Digits == {Numerals[i] : i \in 1..Len(Numerals)}
\* \s, and what str.strip() drops
Whitespace == {" ", "\n"}

\* str.strip(): drops the whitespace at both ends.
RECURSIVE LStrip(_)
LStrip(s) == IF s # << >> /\ Head(s) \in Whitespace THEN LStrip(Tail(s)) ELSE s

RECURSIVE RStrip(_)
RStrip(s) ==
    IF s # << >> /\ s[Len(s)] \in Whitespace THEN RStrip(SubSeq(s, 1, Len(s) - 1)) ELSE s

Strip(s) == RStrip(LStrip(s))

AllIn(s, class) == \A i \in 1..Len(s) : s[i] \in class

NoComma(s) == \A i \in 1..Len(s) : s[i] # ","

\* [A-Z0-9._%+-] and [A-Z0-9.-] under re.IGNORECASE
EmailLocalClass == RegexLetters \cup Digits \cup {".", "_", "%", "+", "-"}
EmailDomainClass == RegexLetters \cup Digits \cup {".", "-"}

\* The anchored match of [A-Z0-9.-]+\.[A-Z]{2,} on the whole of s: some dot of s
\* splits it into a non-empty domain part and a top-level part of two or more letters.
MatchesDomain(s) ==
    \E p \in 2..Len(s) :
        /\ s[p] = "."
        /\ AllIn(SubSeq(s, 1, p - 1), EmailDomainClass)
        /\ Len(s) - p >= 2
        /\ AllIn(SubSeq(s, p + 1, Len(s)), RegexLetters)

\* The anchored match of [A-Z0-9._%+-]+@[A-Z0-9.-]+\.[A-Z]{2,} on the whole of s.
MatchesEmail(s) ==
    \E a \in 2..Len(s) :
        /\ s[a] = "@"
        /\ AllIn(SubSeq(s, 1, a - 1), EmailLocalClass)
        /\ MatchesDomain(SubSeq(s, a + 1, Len(s)))

\* IDENTITY_FORMAT_PATTERN.match(s):
\*   ^[^,]+,\s*[^,]+,\s*[A-Z0-9._%+-]+@[A-Z0-9.-]+\.[A-Z]{2,}$
\* Two commas at i < j cut s into a first and a second piece without comma, both
\* non-empty, and a rest that is optional whitespace and then an email to the end.
IDENTITY_FORMAT_PATTERN(s) ==
    \E i \in 2..Len(s) : \E j \in (i + 2)..Len(s) :
        /\ s[i] = ","
        /\ s[j] = ","
        /\ NoComma(SubSeq(s, 1, i - 1))
        /\ NoComma(SubSeq(s, i + 1, j - 1))
        /\ MatchesEmail(LStrip(SubSeq(s, j + 1, Len(s))))

\* str.split(): the maximal runs of non-whitespace characters, in order.
RECURSIVE SplitFrom(_, _, _)
SplitFrom(s, word, acc) ==
    IF s = << >>
    THEN IF word = << >> THEN acc ELSE Append(acc, word)
    ELSE IF Head(s) \in Whitespace
         THEN SplitFrom(Tail(s), << >>, IF word = << >> THEN acc ELSE Append(acc, word))
         ELSE SplitFrom(Tail(s), Append(word, Head(s)), acc)

Split(s) == SplitFrom(s, << >>, << >>)

\* " ".join(words)
RECURSIVE Join(_)
Join(words) ==
    IF words = << >> THEN << >>
    ELSE IF Len(words) = 1 THEN words[1]
    ELSE words[1] \o <<" ">> \o Join(Tail(words))

\* str.lower(), character by character
LowerChars ==
    [c \in {Alphabet[i] : i \in 1..Len(Alphabet)} |->
        IF \E i \in 1..Len(Uppers) : Uppers[i] = c
        THEN Lowers[CHOOSE i \in 1..Len(Uppers) : Uppers[i] = c]
        ELSE c]
LowerChar(c) == LowerChars[c]
Lower(s) == [i \in 1..Len(s) |-> LowerChar(s[i])]

\* _EMAIL_PATTERN.search(s): the leftmost match, each quantifier taking as much as
\* it can, which is the longest match at the leftmost position that has one.
\* None when there is no match.
EmailMatches(s) ==
    {<<i, j>> \in (1..Len(s)) \X (1..Len(s)) : i <= j /\ MatchesEmail(SubSeq(s, i, j))}

EmailSearch(s) ==
    LET ms == EmailMatches(s)
    IN  IF ms = {} THEN None
        ELSE LET i == CHOOSE a \in {m[1] : m \in ms} : \A m \in ms : a <= m[1]
                 j == CHOOSE b \in {m[2] : m \in ms} :
                          /\ <<i, b>> \in ms
                          /\ \A m \in ms : m[1] = i => m[2] <= b
             IN  SubSeq(s, i, j)

(***************************************************************************)
(* The message fingerprint                                                  *)
(***************************************************************************)
\* The code of a character: its place in Alphabet.
CharCodes ==
    [c \in {Alphabet[i] : i \in 1..Len(Alphabet)} |->
        CHOOSE i \in 1..Len(Alphabet) : Alphabet[i] = c]
CharCode(c) == CharCodes[c]

\* Width of the fingerprint.  The program keeps 16 hexadecimal digits of an MD5
\* digest; the model keeps a polynomial checksum of the characters, cut to
\* HashWidth values: a function of the content alone, of fixed width, that tells
\* the texts of the model apart as the digest tells the program's texts apart.
HashWidth == 65536

RECURSIVE HashFrom(_, _)
HashFrom(s, h) ==
    IF s = << >> THEN h ELSE HashFrom(Tail(s), (h * 31 + CharCode(Head(s))) % HashWidth)

\* _hash_message(message)
_hash_message(message) == HashFrom(message, 7)
(***************************************************************************)
(* Python dicts, in insertion order: a sequence of <<key, value>> pairs    *)
(* with at most one pair per key.                                           *)
(***************************************************************************)
DictHas(d, k) == \E i \in 1..Len(d) : d[i][1] = k

\* d.get(k): the value, or None
DictGet(d, k) ==
    IF DictHas(d, k) THEN d[CHOOSE i \in 1..Len(d) : d[i][1] = k][2] ELSE None

\* d[k] = v: an existing key keeps its place, a new key goes last
DictSet(d, k, v) ==
    IF DictHas(d, k)
    THEN [i \in 1..Len(d) |-> IF d[i][1] = k THEN <<k, v>> ELSE d[i]]
    ELSE Append(d, <<k, v>>)

\* d.pop(k, None)
RECURSIVE DictPop(_, _)
DictPop(d, k) ==
    IF d = << >> THEN << >>
    ELSE IF Head(d)[1] = k THEN Tail(d)
    ELSE <<Head(d)>> \o DictPop(Tail(d), k)

\* some value of d.values() satisfies state.get("waiting_for_identity")
HasWaiting(d) == \E i \in 1..Len(d) : d[i][2].waiting_for_identity

\* the first such value, in the order of d.values()
FirstWaiting(d) ==
    d[CHOOSE i \in 1..Len(d) :
          /\ d[i][2].waiting_for_identity
          /\ \A j \in 1..(i - 1) : ~d[j][2].waiting_for_identity][2]

(***************************************************************************)
(* The session store of chat_agents_system.workflow                         *)
(***************************************************************************)
\* The value get_thread_state returns when nothing is found.
DefaultState == [waiting_for_identity |-> FALSE, original_message |-> None]

\* get_thread_state(thread_id, message) on the two dicts ids (_identity_state) and
\* msgs (_identity_state_by_message), under _state_lock.
get_thread_state(ids, msgs, thread_id, message) ==
    IF Truthy(thread_id) /\ DictHas(ids, thread_id)
    THEN DictGet(ids, thread_id)
    ELSE IF Truthy(message)
         THEN IF DictHas(msgs, _hash_message(message))
              THEN DictGet(msgs, _hash_message(message))
              ELSE IF HasWaiting(ids) THEN FirstWaiting(ids)
              ELSE IF HasWaiting(msgs) THEN FirstWaiting(msgs)
              ELSE DefaultState
         ELSE DefaultState

\* set_thread_state(thread_id, waiting_for_identity, original_message), under
\* _state_lock: the two dicts afterwards.
set_thread_state(ids, msgs, thread_id, waiting_for_identity, original_message) ==
    IF waiting_for_identity
    THEN LET state == [waiting_for_identity |-> TRUE, original_message |-> original_message]
         IN  IF Truthy(thread_id)
             THEN [ids |-> DictSet(ids, thread_id, state), msgs |-> msgs]
             ELSE IF Truthy(original_message)
                  THEN [ids |-> ids,
                        msgs |-> DictSet(msgs, _hash_message(original_message), state)]
                  ELSE [ids |-> ids, msgs |-> msgs]
    ELSE IF Truthy(thread_id)
         THEN [ids |-> DictPop(ids, thread_id), msgs |-> msgs]
         ELSE IF Truthy(original_message)
              THEN [ids |-> ids, msgs |-> DictPop(msgs, _hash_message(original_message))]
              ELSE [ids |-> ids, msgs |-> msgs]
(***************************************************************************)
(* Schemas                                                                  *)
(***************************************************************************)
\* TicketCategory: each member is the one-element sequence of its label, so that
\* a category can be compared with None.
AI_HISTORY == <<"Frage zur Historie von AI">>
O365 == <<"O365 Frage">>
HARDWARE == <<"Bestellung von Hardware">>
LOGIN == <<"Probleme bei der Anmeldung">>
\* TicketCategory.OTHER (OTHER is a reserved word of TLA+)
SONSTIGES == <<"Sonstiges">>
TicketCategory == <<AI_HISTORY, O365, HARDWARE, LOGIN, SONSTIGES>>

TicketInput(message, name, vorname, email, original_message) ==
    [message |-> message, name |-> name, vorname |-> vorname, email |-> email,
     original_message |-> original_message]

TicketContext(original_message, name, vorname, email) ==
    [original_message |-> original_message, name |-> name, vorname |-> vorname,
     email |-> email, category |-> None, summary |-> None, cleaned_request |-> None,
     response |-> None, dispatch_payload |-> None]

\* TicketResponse; the metadata keeps the entries the model reads.
TicketResponse(status, message, payload, metadata) ==
    [status |-> status, message |-> message, payload |-> payload, metadata |-> metadata]

(***************************************************************************)
(* The executors.  Each handler maps its input to what it does at its end:  *)
(* it forwards a context with send_message, it yields a response with       *)
(* yield_output and forwards nothing, or it lets an exception escape.       *)
(***************************************************************************)
Send(context) == [kind |-> "send", sent |-> context, out |-> << >>]
Yield(response) == [kind |-> "yield", sent |-> None, out |-> <<response>>]
Raise == [kind |-> "raise", sent |-> None, out |-> << >>]

\* What the text-generation service may answer to the extraction prompt: a
\* failed call, or a parsed object with the three fields.
ExtractRaise == [raised |-> TRUE, name |-> None, vorname |-> None, email |-> None]
ExtractReply(name, vorname, email) ==
    [raised |-> FALSE, name |-> name, vorname |-> vorname, email |-> email]

\* The email of the parsed object after validation: the matched address in lower
\* case, or None.
ValidatedEmail(email_value) ==
    LET email_match == EmailSearch(Strip(email_value))
    IN  IF email_match # None THEN Lower(email_match) ELSE None

IdentityExtractorHandleUnguarded(ticket_input, llm) ==
    LET message == Strip(ticket_input.message)
        context == TicketContext(
                       IF Truthy(ticket_input.original_message)
                       THEN ticket_input.original_message ELSE message,
                       ticket_input.name, ticket_input.vorname, ticket_input.email)
    IN  IF Truthy(ticket_input.original_message) /\ ~IDENTITY_FORMAT_PATTERN(message)
        THEN [step |-> Send(TicketContext(ticket_input.original_message,
                                          ticket_input.name, ticket_input.vorname,
                                          ticket_input.email)),
              llm_text |-> None]
        ELSE IF Truthy(context.name) /\ Truthy(context.vorname) /\ Truthy(context.email)
        THEN [step |-> Send(context), llm_text |-> None]
        ELSE IF llm.raised
        THEN [step |-> Raise, llm_text |-> message]
        ELSE [step |->
                 Send([context EXCEPT
                          !.name = IF ~Truthy(context.name) /\ Truthy(llm.name)
                                   THEN (IF Strip(llm.name) = << >> THEN None
                                         ELSE Strip(llm.name))
                                   ELSE @,
                          !.vorname = IF ~Truthy(context.vorname) /\ Truthy(llm.vorname)
                                      THEN (IF Strip(llm.vorname) = << >> THEN None
                                            ELSE Strip(llm.vorname))
                                      ELSE @,
                          !.email = IF ~Truthy(context.email) /\ Truthy(llm.email)
                                    THEN ValidatedEmail(llm.email)
                                    ELSE @]),
              llm_text |-> message]

IdentityExtractorHandleOverwrite(ticket_input, llm) ==
    LET message == Strip(ticket_input.message)
        context == TicketContext(
                       IF Truthy(ticket_input.original_message)
                       THEN ticket_input.original_message ELSE message,
                       ticket_input.name, ticket_input.vorname, ticket_input.email)
    IN  IF Truthy(ticket_input.original_message) /\ ~IDENTITY_FORMAT_PATTERN(message)
        THEN [step |-> Send(TicketContext(ticket_input.original_message,
                                          ticket_input.name, ticket_input.vorname,
                                          ticket_input.email)),
              llm_text |-> None]
        ELSE IF Truthy(context.name) /\ Truthy(context.vorname) /\ Truthy(context.email)
        THEN [step |-> Send(context), llm_text |-> None]
        ELSE IF llm.raised
        THEN [step |-> Send(context), llm_text |-> message]
        ELSE [step |->
                 Send([context EXCEPT
                          !.name = IF Truthy(llm.name)
                                   THEN (IF Strip(llm.name) = << >> THEN None
                                         ELSE Strip(llm.name))
                                   ELSE @,
                          !.vorname = IF Truthy(llm.vorname)
                                      THEN (IF Strip(llm.vorname) = << >> THEN None
                                            ELSE Strip(llm.vorname))
                                      ELSE @,
                          !.email = IF Truthy(llm.email)
                                    THEN ValidatedEmail(llm.email)
                                    ELSE @]),
              llm_text |-> message]

\* IdentityExtractorExecutor.handle (chat_agents_system)
IdentityExtractorHandle(ticket_input, llm) ==
    LET message == Strip(ticket_input.message)
        context == TicketContext(
                       IF Truthy(ticket_input.original_message)
                       THEN ticket_input.original_message ELSE message,
                       ticket_input.name, ticket_input.vorname, ticket_input.email)
    IN  IF Truthy(ticket_input.original_message) /\ ~IDENTITY_FORMAT_PATTERN(message)
        THEN [step |-> Send(TicketContext(ticket_input.original_message,
                                          ticket_input.name, ticket_input.vorname,
                                          ticket_input.email)),
              llm_text |-> None]
        ELSE IF Truthy(context.name) /\ Truthy(context.vorname) /\ Truthy(context.email)
        THEN [step |-> Send(context), llm_text |-> None]
        ELSE IF llm.raised
        THEN [step |-> Send(context), llm_text |-> message]
        ELSE [step |->
                 Send([context EXCEPT
                          !.name = IF ~Truthy(context.name) /\ Truthy(llm.name)
                                   THEN (IF Strip(llm.name) = << >> THEN None
                                         ELSE Strip(llm.name))
                                   ELSE @,
                          !.vorname = IF ~Truthy(context.vorname) /\ Truthy(llm.vorname)
                                      THEN (IF Strip(llm.vorname) = << >> THEN None
                                            ELSE Strip(llm.vorname))
                                      ELSE @,
                          !.email = IF ~Truthy(context.email) /\ Truthy(llm.email)
                                    THEN ValidatedEmail(llm.email)
                                    ELSE @]),
              llm_text |-> message]

REQUIRED_FIELDS == <<"name", "vorname", "email">>
REQUIRED_LABELS == <<"Name", "Vorname", "E-Mail-Adresse">>

FieldOf(context, attr) ==
    CASE attr = "name" -> context.name
      [] attr = "vorname" -> context.vorname
      [] attr = "email" -> context.email

IdentityPrompt ==
    <<"Bitte geben Sie Ihre Angaben im Format Name, Vorname, E-Mail-Adresse an. Beispiel: Müller, Hans, hans@example.com">>

ValidationHandleForward(context) == Send(context)

ValidationHandleExact(context) ==
    LET missing == SelectSeq(<<1, 2, 3>>,
                             LAMBDA i : ~Truthy(FieldOf(context, REQUIRED_FIELDS[i])))
    IN  IF missing # << >>
        THEN Yield(TicketResponse("missing_identity", IdentityPrompt, None,
                       [missing_fields |-> [k \in 1..Len(missing) |-> REQUIRED_FIELDS[missing[k]]],
                        missing_labels |-> [k \in 1..Len(missing) |-> REQUIRED_LABELS[missing[k]]]]))
        ELSE Send(context)

\* ValidationExecutor.handle (chat_agents_system)
ValidationHandle(context) ==
    LET missing_attrs == SelectSeq(REQUIRED_FIELDS, LAMBDA attr : ~Truthy(FieldOf(context, attr)))
    IN  IF missing_attrs # << >>
        THEN Yield(TicketResponse("missing_identity", IdentityPrompt, None,
                                  [missing_fields |-> REQUIRED_FIELDS,
                                   missing_labels |-> REQUIRED_LABELS]))
        ELSE Send(context)
\* category.value: the label of a member of TicketCategory, as a text
CategoryValue(category) ==
    CASE category = AI_HISTORY ->
           <<"F", "r", "a", "g", "e", " ", "z", "u", "r", " ", "H", "i", "s", "t", "o", "r", "i", "e", " ", "v", "o", "n", " ", "A", "I">>
      [] category = O365 ->
           <<"O", "3", "6", "5", " ", "F", "r", "a", "g", "e">>
      [] category = HARDWARE ->
           <<"B", "e", "s", "t", "e", "l", "l", "u", "n", "g", " ", "v", "o", "n", " ", "H", "a", "r", "d", "w", "a", "r", "e">>
      [] category = LOGIN ->
           <<"P", "r", "o", "b", "l", "e", "m", "e", " ", "b", "e", "i", " ", "d", "e", "r", " ", "A", "n", "m", "e", "l", "d", "u", "n", "g">>
      [] category = SONSTIGES ->
           <<"S", "o", "n", "s", "t", "i", "g", "e", "s">>

\* What the text-generation service may answer to the classification prompt: a
\* failed call, or a text that parse_json_response turns into a dict ("dict", with
\* the three entries, None for an absent one), into the empty dict ("empty": no
\* JSON in the text) or into a JSON value that is no object ("list").
ClassifyRaise ==
    [raised |-> TRUE, parsed |-> "empty", category |-> None, summary |-> None,
     cleaned_request |-> None]
ClassifyReply(parsed, category, summary, cleaned_request) ==
    [raised |-> FALSE, parsed |-> parsed, category |-> category, summary |-> summary,
     cleaned_request |-> cleaned_request]

\* The word limit of a summary.
SummaryLimit == 9

_enforce_summary_limit_one_more(summary) ==
    LET words == Split(summary)
    IN  IF Len(words) <= SummaryLimit THEN Strip(summary)
        ELSE Strip(Join(SubSeq(words, 1, SummaryLimit + 1)))

\* ClassificationExecutor._enforce_summary_limit
_enforce_summary_limit(summary) ==
    LET words == Split(summary)
    IN  IF Len(words) <= SummaryLimit THEN Strip(summary)
        ELSE Strip(Join(SubSeq(words, 1, SummaryLimit)))

_map_category_same_case(raw) ==
    IF ~Truthy(raw) THEN SONSTIGES
    ELSE LET hits == {i \in 1..Len(TicketCategory) :
                         CategoryValue(TicketCategory[i]) = Strip(raw)}
         IN  IF hits = {} THEN SONSTIGES
             ELSE TicketCategory[CHOOSE i \in hits : \A j \in hits : i <= j]

\* ClassificationExecutor._map_category: the first member whose label equals the
\* trimmed text, both in lower case, else OTHER.
_map_category(raw) ==
    IF ~Truthy(raw) THEN SONSTIGES
    ELSE LET normalized == Lower(Strip(raw))
             hits == {i \in 1..Len(TicketCategory) :
                         Lower(CategoryValue(TicketCategory[i])) = normalized}
         IN  IF hits = {} THEN SONSTIGES
             ELSE TicketCategory[CHOOSE i \in hits : \A j \in hits : i <= j]

DefaultSummary == <<"T", "i", "c", "k", "e", "t">>

\* ClassificationExecutor.handle.  The call raises when the service fails and when
\* the parsed value is no dict (it has no get).
ClassificationHandle(context, llm) ==
    IF llm.raised \/ llm.parsed = "list"
    THEN Raise
    ELSE LET parsed == IF llm.parsed = "dict" THEN llm
                       ELSE ClassifyReply("empty", None, None, None)
         IN  Send([context EXCEPT
                      !.summary = _enforce_summary_limit(
                                      IF Truthy(parsed.summary) THEN parsed.summary
                                      ELSE DefaultSummary),
                      !.cleaned_request = IF Truthy(parsed.cleaned_request)
                                          THEN parsed.cleaned_request
                                          ELSE context.original_message,
                      !.category = _map_category(parsed.category)])

\* The answer of the service to the historian's prompt is response.text, None or
\* a text; HistorianRaise stands for a call that fails.
HistorianRaise == <<"Raise">>

HistorianHandleSilent(context, answer) == Send(context)

\* HistorianExecutor.handle.  The call of the service is not guarded: its
\* exception leaves the handler.
HistorianHandle(context, answer) ==
    IF context.category # AI_HISTORY
    THEN Send(context)
    ELSE IF answer = HistorianRaise
    THEN Raise
    ELSE Send([context EXCEPT !.response = IF Truthy(answer) THEN Strip(answer) ELSE << >>])

_SUCCESS_MESSAGE ==
    <<"Das Ticket wurde erfolgreich an das IT-Team übergeben. Du erhältst eine Rückmeldung per E-Mail.">>
DISPATCHABLE == {AI_HISTORY, O365, HARDWARE, LOGIN}

DispatchPayload(context) ==
    [name |-> context.name, vorname |-> context.vorname, email |-> context.email,
     kategorie |-> CategoryValue(context.category),
     zusammenfassung |-> context.summary, anfrage |-> context.original_message]

DispatcherHandleYieldAndForward(context, simulate_only, transport_ok) ==
    IF context.category \notin DISPATCHABLE
    THEN Send(context)
    ELSE [kind |-> "send",
          sent |-> [context EXCEPT !.dispatch_payload = DispatchPayload(context)],
          out |-> IF simulate_only \/ transport_ok THEN << >>
                  ELSE <<TicketResponse("dispatch_error", << >>, None,
                                        [error |-> "HTTPError",
                                         payload |-> DispatchPayload(context)])>>]

DispatcherHandleEveryCategory(context, simulate_only, transport_ok) ==
    IF simulate_only \/ transport_ok
    THEN Send([context EXCEPT
                  !.dispatch_payload = DispatchPayload(context),
                  !.response = IF ~Truthy(context.response) THEN _SUCCESS_MESSAGE ELSE @])
    ELSE Yield(TicketResponse("dispatch_error",
                              <<"Die Weiterleitung an das IT-Team ist fehlgeschlagen.">>,
                              None,
                              [error |-> "HTTPError", payload |-> DispatchPayload(context)]))

DispatcherHandleSwallow(context, simulate_only, transport_ok) ==
    IF context.category \notin DISPATCHABLE
    THEN Send(context)
    ELSE Send([context EXCEPT
                  !.dispatch_payload = DispatchPayload(context),
                  !.response = IF ~Truthy(context.response) THEN _SUCCESS_MESSAGE ELSE @])

\* DispatcherExecutor.handle; transport_ok tells whether the POST succeeds
DispatcherHandle(context, simulate_only, transport_ok) ==
    IF context.category \notin DISPATCHABLE
    THEN Send(context)
    ELSE IF simulate_only \/ transport_ok
    THEN Send([context EXCEPT
                  !.dispatch_payload = DispatchPayload(context),
                  !.response = IF ~Truthy(context.response) THEN _SUCCESS_MESSAGE ELSE @])
    ELSE Yield(TicketResponse("dispatch_error",
                              <<"Die Weiterleitung an das IT-Team ist fehlgeschlagen.">>,
                              None,
                              [error |-> "HTTPError", payload |-> DispatchPayload(context)]))

UnsupportedMessage == <<"Leider kann dieses System bei dieser Anfrage nicht helfen.">>
AcknowledgeMessage ==
    <<"Deine Anfrage wurde aufgenommen. Wir melden uns so schnell wie möglich.">>

ResponseFormatterHandleNoFallback(context) ==
    LET metadata == [category |-> IF context.category # None
                                  THEN CategoryValue(context.category) ELSE None,
                     summary |-> context.summary,
                     dispatch_payload |-> context.dispatch_payload]
    IN  IF context.category = SONSTIGES
        THEN Yield(TicketResponse("unsupported", UnsupportedMessage, None, metadata))
        ELSE Yield(TicketResponse("completed", context.response,
                                  context.dispatch_payload, metadata))

\* ResponseFormatterExecutor.handle
ResponseFormatterHandle(context) ==
    LET metadata == [category |-> IF context.category # None
                                  THEN CategoryValue(context.category) ELSE None,
                     summary |-> context.summary,
                     dispatch_payload |-> context.dispatch_payload]
    IN  IF context.category = SONSTIGES
        THEN Yield(TicketResponse("unsupported", UnsupportedMessage, None, metadata))
        ELSE Yield(TicketResponse("completed",
                                  IF ~Truthy(context.response) THEN AcknowledgeMessage
                                  ELSE context.response,
                                  context.dispatch_payload, metadata))
(***************************************************************************)
(* Pieces of regular expressions, for the patterns of the intake and of    *)
(* the older identity extractor                                             *)
(***************************************************************************)
\* A local variable: Body of the value, which is computed once.
With(value, Body(_)) == Body(value)

MinOf(S) == CHOOSE x \in S : \A y \in S : x <= y
MaxOf(S) == CHOOSE x \in S : \A y \in S : y <= x

\* \w
WordChars == RegexLetters \cup Digits \cup {"_"}

\* The first index from k on whose character is not in class (Len(s) + 1 when
\* there is none): where a greedy class+ or \s* that starts at k ends.
RECURSIVE RunStop(_, _, _)
RunStop(s, k, class) ==
    IF k <= Len(s) /\ s[k] \in class THEN RunStop(s, k + 1, class) ELSE k

\* The same for a negated class [^...].
RECURSIVE RunStopNot(_, _, _)
RunStopNot(s, k, excluded) ==
    IF k <= Len(s) /\ s[k] \notin excluded THEN RunStopNot(s, k + 1, excluded) ELSE k

\* The literal word w (in lower case) is at index k of s, letter case ignored.
StartsWithCI(s, k, w) ==
    /\ k + Len(w) - 1 <= Len(s)
    /\ Lower(SubSeq(s, k, k + Len(w) - 1)) = w

\* The first index at which sub occurs in s, 0 when it does not: s.find(sub) + 1.
Find(s, sub) ==
    LET at == {i \in 1..(Len(s) - Len(sub) + 1) : SubSeq(s, i, i + Len(sub) - 1) = sub}
    IN  IF at = {} THEN 0 ELSE MinOf(at)

\* s.split(","): the pieces between the commas, empty ones included.
RECURSIVE SplitCommaFrom(_, _, _)
SplitCommaFrom(s, piece, acc) ==
    IF s = << >> THEN Append(acc, piece)
    ELSE IF Head(s) = "," THEN SplitCommaFrom(Tail(s), << >>, Append(acc, piece))
    ELSE SplitCommaFrom(Tail(s), Append(piece, Head(s)), acc)

\* [p.strip() for p in s.split(",") if p.strip()]
CommaParts(s) ==
    LET pieces == SplitCommaFrom(s, << >>, << >>)
        stripped == [i \in 1..Len(pieces) |-> Strip(pieces[i])]
    IN  SelectSeq(stripped, LAMBDA piece : piece # << >>)

\* s.replace(sub, ""), for a non-empty sub
RECURSIVE RemoveAll(_, _)
RemoveAll(s, sub) ==
    LET i == Find(s, sub)
    IN  IF i = 0 THEN s
        ELSE SubSeq(s, 1, i - 1) \o RemoveAll(SubSeq(s, i + Len(sub), Len(s)), sub)

(***************************************************************************)
(* The older workflow (obungi_chat_agents_system): intake, identity,        *)
(* validation, classification, historian, dispatcher and formatter in a     *)
(* line.                                                                    *)
(***************************************************************************)
\* The value group of \b<label>\s*[:\-]\s*(?P<value>[^<stop>]+) matched at index k
\* of s, None when the pattern does not match there.  \s* gives back as much as
\* the value needs to start.
LabelValueAt(s, k, label, stop) ==
    IF ~(StartsWithCI(s, k, label) /\ (k = 1 \/ s[k - 1] \notin WordChars))
    THEN None
    ELSE LET q == RunStop(s, k + Len(label), Whitespace)
         IN  IF q > Len(s) \/ s[q] \notin {":", "-"} THEN None
             ELSE LET starts == {j \in (q + 1)..RunStop(s, q + 1, Whitespace) :
                                    j <= Len(s) /\ s[j] \notin stop}
                  IN  IF starts = {} THEN None
                      ELSE SubSeq(s, MaxOf(starts), RunStopNot(s, MaxOf(starts), stop) - 1)

\* IntakeExecutor._extract_value(pattern, text) for the pattern with the given
\* labels (the alternatives, in order) and stop characters: the value of the
\* leftmost match, stripped; None without a match or for an empty text.
_extract_value(labels, stop, text) ==
    LET hits == {k \in 1..Len(text) :
                    \E i \in 1..Len(labels) : LabelValueAt(text, k, labels[i], stop) # None}
    IN  IF hits = {} THEN None
        ELSE LET k == MinOf(hits)
                 i == MinOf({i \in 1..Len(labels) :
                                LabelValueAt(text, k, labels[i], stop) # None})
             IN  Strip(LabelValueAt(text, k, labels[i], stop))

_NAME_PATTERN(text) == _extract_value(<< <<"n", "a", "m", "e">> >>, {",", "\n"}, text)
_VORNAME_PATTERN(text) ==
    _extract_value(<< <<"v", "o", "r", "n", "a", "m", "e">> >>, {",", "\n"}, text)
_EMAIL_PATTERN(text) ==
    _extract_value(<< <<"e", "m", "a", "i", "l">>, <<"e", "-", "m", "a", "i", "l">> >>,
                   Whitespace \cup {",", ";"}, text)

\* x or y of Python
Or(x, y) == IF Truthy(x) THEN x ELSE y

\* An intake that reads the fields from the message alone.
IntakeHandleMessageOnly(ticket_input) ==
    LET message == Strip(ticket_input.message)
    IN  Send(TicketContext(message, _NAME_PATTERN(message), _VORNAME_PATTERN(message),
                           _EMAIL_PATTERN(message)))

\* IntakeExecutor.handle
IntakeHandle(ticket_input) ==
    LET message == Strip(ticket_input.message)
    IN  Send(TicketContext(message,
                           Or(ticket_input.name, _NAME_PATTERN(message)),
                           Or(ticket_input.vorname, _VORNAME_PATTERN(message)),
                           Or(ticket_input.email, _EMAIL_PATTERN(message))))

\* The separator the older tool puts between the original request and the
\* identity reply.
Separator == <<"\n", "\n", "-", "-", "-", "\n">>

\* identity_text of IdentityExtractorExecutor.handle: the part after the first
\* separator, stripped, or the whole message.
IdentityText(full_message) ==
    LET i == Find(full_message, Separator)
    IN  IF i = 0 THEN full_message
        ELSE Strip(SubSeq(full_message, i + Len(Separator), Len(full_message)))

\* [field for field in ("name", "vorname", "email") if not getattr(context, field)]
MissingOf(context) ==
    SelectSeq(<<"name", "vorname", "email">>, LAMBDA attr : ~Truthy(FieldOf(context, attr)))

In(attr, missing) == \E i \in 1..Len(missing) : missing[i] = attr

\* The words of phrase, each followed by \s+, matched from index k of s on: the
\* index after them, 0 when they do not match.  Each element of phrase is the
\* sequence of the alternatives for one word.
RECURSIVE PhraseEnd(_, _, _)
PhraseEnd(s, k, phrase) ==
    IF phrase = << >> THEN k
    ELSE LET alts == Head(phrase)
             hits == {i \in 1..Len(alts) : StartsWithCI(s, k, alts[i])}
         IN  IF hits = {} THEN 0
             ELSE LET e == k + Len(alts[MinOf(hits)])
                  IN  IF e > Len(s) \/ s[e] \notin Whitespace THEN 0
                      ELSE PhraseEnd(s, RunStop(s, e, Whitespace), Tail(phrase))

\* The groups of <phrase>\s+(?P<vorname>[A-Za-z...]+)\s+(?P<name>[A-Za-z...]+)(?:[,\s]|$)
\* matched at index k of s: both groups are whole runs of letters.
NaturalNameAt(s, k, phrase) ==
    LET b == PhraseEnd(s, k, phrase)
        e1 == RunStop(s, b, NameLetters)
        c == RunStop(s, e1, Whitespace)
        e2 == RunStop(s, c, NameLetters)
    IN  IF b # 0 /\ e1 > b /\ c > e1 /\ e2 > c
           /\ (e2 > Len(s) \/ s[e2] \in Whitespace \cup {","})
        THEN [found |-> TRUE, vorname |-> SubSeq(s, b, e1 - 1), name |-> SubSeq(s, c, e2 - 1)]
        ELSE [found |-> FALSE, vorname |-> None, name |-> None]

\* pattern.search(text) for a pattern of _NATURAL_NAME_PATTERNS: the leftmost match.
NaturalNameSearch(s, phrase) ==
    LET hits == {k \in 1..Len(s) : NaturalNameAt(s, k, phrase).found}
    IN  IF hits = {} THEN [found |-> FALSE, vorname |-> None, name |-> None]
        ELSE NaturalNameAt(s, MinOf(hits), phrase)

\* _NATURAL_NAME_PATTERNS: "(mein) name ist V N" and "ich heisse|bin V N".  The
\* optional "mein" in front changes where a match starts, not its groups.
_NATURAL_NAME_PATTERNS ==
    << << << <<"n", "a", "m", "e">> >>, << <<"i", "s", "t">> >> >>,
       << << <<"i", "c", "h">> >>,
          << <<"h", "e", "i", "ß", "e">>, <<"b", "i", "n">> >> >> >>

\* The loop over _NATURAL_NAME_PATTERNS: the first pattern that matches fills the
\* missing names and ends the loop (after it, a name is set).
NaturalNames(context, missing, text) ==
    LET found == {i \in 1..Len(_NATURAL_NAME_PATTERNS) :
                     NaturalNameSearch(text, _NATURAL_NAME_PATTERNS[i]).found}
    IN  IF found = {} THEN context
        ELSE LET match == NaturalNameSearch(text, _NATURAL_NAME_PATTERNS[MinOf(found)])
             IN  [context EXCEPT
                     !.vorname = IF In("vorname", missing) /\ ~Truthy(@)
                                 THEN Strip(match.vorname) ELSE @,
                     !.name = IF In("name", missing) /\ ~Truthy(@)
                              THEN Strip(match.name) ELSE @]

\* The "flexible" extraction: the names from the comma-separated parts of the
\* text without the matched address.
FlexibleNames(context, missing, text, email_match) ==
    IF email_match # None
       /\ (\/ In("name", missing) /\ ~Truthy(context.name)
           \/ In("vorname", missing) /\ ~Truthy(context.vorname))
    THEN LET name_parts == CommaParts(Strip(RemoveAll(text, email_match)))
         IN  IF Len(name_parts) >= 2
             THEN [context EXCEPT
                      !.name = IF In("name", missing) /\ ~Truthy(@)
                               THEN name_parts[1] ELSE @,
                      !.vorname = IF In("vorname", missing) /\ ~Truthy(@)
                                  THEN name_parts[2] ELSE @]
             ELSE context
    ELSE context

StrictNamesGivenNameFirst(context, missing, parts) ==
    LET with_email == {i \in 1..3 : EmailSearch(parts[i]) # None}
    IN  IF with_email = {} THEN context
        ELSE LET email_index == MinOf(with_email)
                 name_indices == SelectSeq(<<1, 2, 3>>, LAMBDA i : i # email_index)
                 first == IF email_index = 3 THEN 1 ELSE 2
             IN  [context EXCEPT
                     !.email = IF In("email", missing) /\ ~Truthy(@)
                               THEN Lower(EmailSearch(parts[email_index])) ELSE @,
                     !.name = IF In("name", missing) /\ ~Truthy(@)
                              THEN Strip(parts[name_indices[first]]) ELSE @,
                     !.vorname = IF In("vorname", missing) /\ ~Truthy(@)
                                 THEN Strip(parts[name_indices[3 - first]]) ELSE @]

\* The strict form: three comma-separated parts, one of them with an address.
\* The two branches of the code (address last, address first or second) assign
\* the same way: the name is the first of the other two parts, the vorname the
\* second.
StrictNames(context, missing, parts) ==
    LET with_email == {i \in 1..3 : EmailSearch(parts[i]) # None}
    IN  IF with_email = {} THEN context
        ELSE LET email_index == MinOf(with_email)
                 name_indices == SelectSeq(<<1, 2, 3>>, LAMBDA i : i # email_index)
             IN  [context EXCEPT
                     !.email = IF In("email", missing) /\ ~Truthy(@)
                               THEN Lower(EmailSearch(parts[email_index])) ELSE @,
                     !.name = IF In("name", missing) /\ ~Truthy(@)
                              THEN Strip(parts[name_indices[1]]) ELSE @,
                     !.vorname = IF In("vorname", missing) /\ ~Truthy(@)
                                 THEN Strip(parts[name_indices[2]]) ELSE @]

\* IdentityExtractorExecutor._apply_regex_fallback(context, missing, text): the
\* context afterwards.  The patterns of _NATURAL_EMAIL_PATTERNS are tried only
\* when _EMAIL_PATTERN has found no address in the text, and their group is
\* _EMAIL_PATTERN: they find none either.
_apply_regex_fallback(context, missing, raw_text) ==
    LET text == Strip(raw_text)
        email_match == EmailSearch(text)
        first == IF email_match # None /\ In("email", missing)
                 THEN [context EXCEPT !.email = Lower(email_match)] ELSE context
        parts == CommaParts(text)
    IN  IF missing = << >> \/ text = << >> THEN context
        ELSE IF Len(parts) # 3
        THEN FlexibleNames(NaturalNames(first, missing, text), missing, text, email_match)
        ELSE StrictNames(first, missing, parts)

\* IdentityExtractorExecutor._normalize_value(field, value)
_normalize_value(field, value) ==
    IF ~Truthy(value) \/ Strip(value) = << >> THEN None
    ELSE IF field = "email" THEN ValidatedEmail(value)
    ELSE Strip(value)

\* The final check of the handler: a value of blanks only becomes None.
Cleaned(value) == IF Truthy(value) /\ Strip(value) = << >> THEN None ELSE value

\* IdentityExtractorExecutor.handle (obungi_chat_agents_system).  A failed call
\* of the service and a reply that is no JSON object leave the fields as the
\* patterns left them.
ObungiIdentityHandle(context, llm) ==
    IF ~Truthy(context.original_message) \/ MissingOf(context) = << >>
    THEN [step |-> Send(context), llm_text |-> None]
    ELSE With(IdentityText(context.original_message), LAMBDA identity_text :
         With(_apply_regex_fallback(context, MissingOf(context), identity_text),
              LAMBDA after_regex :
         With(MissingOf(after_regex), LAMBDA missing :
         With([attr \in {"name", "vorname", "email"} |->
                  IF In(attr, missing) /\ ~llm.raised
                  THEN Or(_normalize_value(attr, FieldOf(llm, attr)),
                          FieldOf(after_regex, attr))
                  ELSE FieldOf(after_regex, attr)], LAMBDA filled :
             [step |-> Send([after_regex EXCEPT
                                !.name = Cleaned(filled["name"]),
                                !.vorname = Cleaned(filled["vorname"]),
                                !.email = Cleaned(filled["email"])]),
              llm_text |-> IF missing # << >> THEN identity_text ELSE None]))))

LabelOf(attr) ==
    CASE attr = "name" -> "Name"
      [] attr = "vorname" -> "Vorname"
      [] attr = "email" -> "E-Mail-Adresse"

\* ValidationExecutor.handle (obungi_chat_agents_system): the message names the
\* labels of the missing fields.
ObungiValidationHandle(context) ==
    LET missing_attrs == MissingOf(context)
        missing_labels == [i \in 1..Len(missing_attrs) |-> LabelOf(missing_attrs[i])]
    IN  IF missing_attrs # << >>
        THEN Yield(TicketResponse("missing_identity",
                                  <<"Bitte ergänzen Sie folgende Angaben, damit wir Ihr Ticket verarbeiten können: ">>
                                      \o missing_labels,
                                  None,
                                  [missing_fields |-> missing_attrs,
                                   missing_labels |-> missing_labels]))
        ELSE Send(context)
(***************************************************************************)
(* The workflow of chat_agents_system: identity, validation,                *)
(* classification, then the switch on the category.                         *)
(***************************************************************************)
\* is_ai_history and is_dispatchable, the conditions of the switch
is_ai_history(context) ==
    IF Truthy(context.category) THEN context.category = AI_HISTORY ELSE FALSE

is_dispatchable(context) ==
    IF ~Truthy(context.category) THEN FALSE
    ELSE context.category \in {O365, HARDWARE, LOGIN}

SwitchTargetLinear(context) == "historian"

\* The target the switch-case edge group selects: the first case whose condition
\* holds, else the default.
SwitchTarget(context) ==
    IF is_ai_history(context) THEN "historian"
    ELSE IF is_dispatchable(context) THEN "dispatcher"
    ELSE "response_formatter"

\* What the answers of the outside world are in one run: the extraction reply, the
\* classification reply, the historian's text and whether the POST succeeds.
Replies(extract, classify, historian, transport_ok) ==
    [extract |-> extract, classify |-> classify, historian |-> historian,
     transport_ok |-> transport_ok]

\* The part of a run from the formatter on.
RunFormatter(context, run) ==
    LET f == ResponseFormatterHandle(context)
    IN  [run EXCEPT !.trace = Append(@, "response_formatter"), !.outputs = @ \o f.out,
                    !.format_in = context]

\* The part of a run from the dispatcher on.
RunDispatcher(context, simulate_only, llm, run) ==
    LET d == DispatcherHandle(context, simulate_only, llm.transport_ok)
        here == [run EXCEPT !.trace = Append(@, "dispatcher"),
                            !.outputs = @ \o d.out,
                            !.dispatch_in = context, !.dispatch = d,
                            !.dispatched = context.category \in DISPATCHABLE,
                            !.anfrage = IF context.category \in DISPATCHABLE
                                        THEN context.original_message ELSE @]
    IN  IF d.kind = "send" THEN RunFormatter(d.sent, here) ELSE here

\* The part of a run from the historian on.
RunHistorian(context, simulate_only, llm, run) ==
    LET h == HistorianHandle(context, llm.historian)
        here == [run EXCEPT !.trace = Append(@, "historian"),
                            !.raised = (h.kind = "raise")]
    IN  IF h.kind = "send" THEN RunDispatcher(h.sent, simulate_only, llm, here) ELSE here

\* The part of a run from the classification on.
RunClassification(context, simulate_only, llm, run) ==
    LET c == ClassificationHandle(context, llm.classify)
        here == [run EXCEPT !.trace = Append(@, "classification"),
                            !.classified = context.original_message,
                            !.raised = (c.kind = "raise")]
    IN  IF c.kind # "send" THEN here
        ELSE LET there == [here EXCEPT !.category = c.sent.category]
             IN  CASE SwitchTarget(c.sent) = "historian" ->
                          RunHistorian(c.sent, simulate_only, llm, there)
                   [] SwitchTarget(c.sent) = "dispatcher" ->
                          RunDispatcher(c.sent, simulate_only, llm, there)
                   [] OTHER -> RunFormatter(c.sent, there)

\* workflow.run(ticket_input) of the workflow create_ticket_workflow builds.  The
\* result keeps what the run did: the executors that ran, in order (trace), the
\* responses yielded (outputs), whether an exception escaped (raised), the text the
\* extraction service was asked about (extracted, None without a call), the
\* request text given to the classifier (classified, None when it did not run),
\* the category it found, the request text of the dispatch payload (anfrage), the
\* context the validation was given (validated) and what it did with it (gate),
\* the context the dispatcher was given (dispatch_in) and what it did with it
\* (dispatch), and the context the formatter was given (format_in).
WorkflowRun(ticket_input, simulate_only, llm) ==
    LET i == IdentityExtractorHandle(ticket_input, llm.extract)
        v == ValidationHandle(i.step.sent)
        start == [trace |-> <<"identity", "validation">>, outputs |-> v.out,
                  raised |-> FALSE, extracted |-> i.llm_text, classified |-> None,
                  category |-> None, dispatched |-> FALSE, anfrage |-> None,
                  original_message |-> i.step.sent.original_message,
                  validated |-> i.step.sent, gate |-> v,
                  dispatch_in |-> None, dispatch |-> None, format_in |-> None]
    IN  IF i.step.kind # "send"
        THEN [trace |-> <<"identity">>, outputs |-> i.step.out,
              raised |-> (i.step.kind = "raise"), extracted |-> i.llm_text,
              classified |-> None, category |-> None, dispatched |-> FALSE,
              anfrage |-> None, original_message |-> None,
              validated |-> None, gate |-> i.step,
              dispatch_in |-> None, dispatch |-> None, format_in |-> None]
        ELSE IF v.kind = "send" THEN RunClassification(v.sent, simulate_only, llm, start)
        ELSE start

\* The part of a run of the older workflow from the classification on: the
\* historian and the dispatcher follow for every category.
RunClassificationLinear(context, simulate_only, llm, run) ==
    LET c == ClassificationHandle(context, llm.classify)
        here == [run EXCEPT !.trace = Append(@, "classification"),
                            !.classified = context.original_message,
                            !.raised = (c.kind = "raise")]
    IN  IF c.kind # "send" THEN here
        ELSE RunHistorian(c.sent, simulate_only, llm,
                          [here EXCEPT !.category = c.sent.category])

\* workflow.run(ticket_input) of the workflow create_ticket_workflow of
\* obungi_chat_agents_system builds.
ObungiWorkflowRun(ticket_input, simulate_only, llm) ==
    With(ObungiIdentityHandle(IntakeHandle(ticket_input).sent, llm.extract), LAMBDA i :
    With(ObungiValidationHandle(i.step.sent), LAMBDA v :
    With([trace |-> <<"intake", "identity", "validation">>, outputs |-> v.out,
          raised |-> FALSE, extracted |-> i.llm_text, classified |-> None,
          category |-> None, dispatched |-> FALSE, anfrage |-> None,
          original_message |-> i.step.sent.original_message,
          validated |-> i.step.sent, gate |-> v,
          dispatch_in |-> None, dispatch |-> None, format_in |-> None], LAMBDA start :
        IF v.kind = "send" THEN RunClassificationLinear(v.sent, simulate_only, llm, start)
        ELSE start)))

(***************************************************************************)
(* Inputs                                                                   *)
(***************************************************************************)
\* Texts a client may send: two support requests, the identity line of a
\* follow-up (with blanks around it, which the entry points strip before they
\* match it) and the empty text.
MsgLogin == <<"p", "c">>
MsgHelp == <<"h", "i">>
MsgIdentity == <<"m", ",", " ", "h", ",", " ", "h", "@", "x", ".", "d", "e">>
MsgIdentityPadded == <<" ">> \o MsgIdentity \o <<" ">>
MsgEmpty == << >>
Messages == {MsgLogin, MsgHelp, MsgIdentityPadded, MsgEmpty}

\* The thread id a client may send (a text whose characters are never looked at);
\* a request may also come without one.
ThreadIds == {<<"thread-1">>}

\* Identity fields a client may send with a request: none, or all three.
NoFields == [name |-> None, vorname |-> None, email |-> None]
AllFields == [name |-> <<"Mueller">>, vorname |-> <<"Hans">>,
              email |-> <<"h", "a", "n", "s", "@", "x", ".", "d", "e">>]
FieldChoices == {NoFields, AllFields}

SummaryShort == <<"p", "c", " ", "a">>


\* Answers of the text-generation service in the runs the entry points start:
\* the extraction finds nothing or all three fields; the classification fails or
\* names a dispatchable category, the history category or the category "other";
\* the POST of a dispatcher that does not simulate succeeds or fails.
SessionReplies(simulate_only) ==
    {Replies(x, c, <<"E", "L", "I", "Z", "A">>, t) :
        x \in {ExtractReply(None, None, None),
               ExtractReply(<<"Schmidt">>, <<"Anna">>, <<"a", "@", "x", ".", "d", "e">>)},
        c \in {ClassifyRaise,
               ClassifyReply("dict", CategoryValue(LOGIN), SummaryShort, None),
               ClassifyReply("dict", CategoryValue(AI_HISTORY), SummaryShort, None),
               ClassifyReply("dict", CategoryValue(SONSTIGES), SummaryShort, None)},
        t \in IF simulate_only THEN {TRUE} ELSE BOOLEAN}

\* The TicketInput values the entry points build from these inputs.
SessionInputs ==
    {TicketInput(m, f.name, f.vorname, f.email, o) :
        m \in Messages, f \in FieldChoices, o \in Messages \cup {None}}

\* workflow.run on each of them, computed once:
\* SessionRuns[simulate_only][ticket_input][llm] is
\* WorkflowRun(ticket_input, simulate_only, llm).
SessionRuns ==
    [simulate_only \in BOOLEAN |-> [ticket_input \in SessionInputs |->
     [llm \in SessionReplies(simulate_only) |-> WorkflowRun(ticket_input, simulate_only, llm)]]]

\* Where the answer of an entry point carries the detail of an exception that
\* left workflow.run: the route raises HTTPException(500) with it as detail, the
\* tools return a dict with status and message only, the text in the message.
ErrorDetailInMetadata(entry, run) ==
    IF run.raised THEN "metadata" ELSE "none"
ErrorDetail(entry, run) ==
    IF ~run.raised THEN "none"
    ELSE IF entry = "http" THEN "http_detail" ELSE "message"

\* The status of the last output of a run, "none" when the run raised or yielded
\* nothing.
RunStatus(run) ==
    IF run.raised \/ run.outputs = << >> THEN "none"
    ELSE run.outputs[Len(run.outputs)].status

(***************************************************************************)
(* State                                                                    *)
(***************************************************************************)
VARIABLES
    deployment,                  \* which entry point the process serves
    _identity_state,             \* thread_id (older tool: state key) -> state, a dict
    _identity_state_by_message,  \* message fingerprint -> state, a dict
    inflight,                    \* the requests between their two halves, a bag
    ev,                          \* what the last step did and answered (history)
    cli                          \* the local variables of main of the command line

vars == <<deployment, _identity_state, _identity_state_by_message, inflight, ev, cli>>

\* known_fields of main at the start of a ticket
NoKnownFields == [name |-> None, vorname |-> None, email |-> None]

\* The local variables of main: where it is (pc), the message of the ticket,
\* known_fields, the fields prompt_missing_fields still asks for (pending) and
\* those it has collected (collected), the number of calls of workflow.run for
\* the ticket (runs) and the status of the response rendered last (rendered).
\* pc is "none" in a process that does not run main.
Main(pc, message, known_fields, pending, collected, runs, rendered) ==
    [pc |-> pc, message |-> message, known_fields |-> known_fields,
     pending |-> pending, collected |-> collected, runs |-> runs,
     rendered |-> rendered]

NoMain == Main("none", None, NoKnownFields, << >>, << >>, 0, "none")

\* A process is the API server, whose route always builds a simulating workflow,
\* or the DevUI with the conversational tool, or the older DevUI with the older
\* tool, both built with simulate_dispatch on or off.
Deployments ==
    {[entry |-> "http", simulate_dispatch |-> TRUE]}
    \cup {[entry |-> e, simulate_dispatch |-> b] : e \in {"tool", "obungi_tool"},
                                                  b \in BOOLEAN}

\* What a step records of itself: the request (message, thread_id, the
\* original_message argument of the tool), the decision at entry (gate), whether
\* the session state was read and the waiting flag it had (FALSE when it was not
\* read), the answer (http status, response status, thread_id
\* and original_message of its metadata), whether a workflow run ended in this
\* step and, of that run: the TicketInput's original_message, whether it resumed a
\* parked message, the text the extraction service was asked about, the request
\* text given to the classifier and the one of the dispatch payload, the
\* original message of the state that was read (parked), the original_message
\* of the TicketContext the stages after the extraction have seen, whether an
\* exception left the run (raised) and where the answer carries its detail, the
\* simulate_dispatch of a request to the route (requested) and whether the
\* dispatcher of the run posted the payload (posted).
NoEvent ==
    [op |-> "none", message |-> None, thread_id |-> None, arg |-> None,
     gate |-> "none", read_state |-> FALSE, waiting |-> FALSE,
     http |-> 0, status |-> "none",
     meta_thread_id |-> None, meta_original_message |-> None,
     ran |-> FALSE, resumed |-> FALSE, overtaken |-> FALSE, fresh_park |-> FALSE,
     input_original |-> None, extracted |-> None, classified |-> None,
     dispatched |-> FALSE, anfrage |-> None,
     parked |-> None, context_original |-> None,
     raised |-> FALSE, detail |-> "none",
     requested |-> TRUE, posted |-> FALSE]

Init ==
    /\ deployment \in Deployments
    /\ _identity_state = << >>
    /\ _identity_state_by_message = << >>
    /\ inflight = EmptyBag
    /\ ev = NoEvent
    /\ cli = NoMain

(***************************************************************************)
(* The HTTP route process_ticket (api/routes/tickets.py).  The handler runs *)
(* on the event loop: it is atomic up to its one await, workflow.run, and   *)
(* atomic again from there to its end.  Other handlers run in between.      *)
(***************************************************************************)
\* The decision the route takes before it builds the workflow:
\*   "bad_request"  HTTP 400, an identity line without thread_id
\*   "reject"       the thread waits and the message is no identity line
\*   "resume"       the thread waits and the message is an identity line
\*   "fresh"        anything else
\* waiting is the flag of the state read for thread_id.
RouteGateNoReject(thread_id, waiting, message_stripped) ==
    IF ~Truthy(thread_id) /\ IDENTITY_FORMAT_PATTERN(message_stripped)
    THEN "bad_request"
    ELSE IF Truthy(thread_id) /\ waiting /\ IDENTITY_FORMAT_PATTERN(message_stripped)
         THEN "resume"
         ELSE "fresh"

RouteGateNoBadRequest(thread_id, waiting, message_stripped) ==
    IF Truthy(thread_id) /\ waiting
    THEN IF IDENTITY_FORMAT_PATTERN(message_stripped) THEN "resume" ELSE "reject"
    ELSE "fresh"

RouteGate(thread_id, waiting, message_stripped) ==
    IF ~Truthy(thread_id) /\ IDENTITY_FORMAT_PATTERN(message_stripped)
    THEN "bad_request"
    ELSE IF Truthy(thread_id) /\ waiting
         THEN IF IDENTITY_FORMAT_PATTERN(message_stripped) THEN "resume" ELSE "reject"
         ELSE "fresh"

\* Whether the route calls get_thread_state: only for a request with a thread_id,
\* after the check that answers 400.
RouteReadsState(thread_id, message_stripped) ==
    Truthy(thread_id) /\ ~(~Truthy(thread_id) /\ IDENTITY_FORMAT_PATTERN(message_stripped))

RouteOriginalMessageNone(gate, thread_state) == None

\* Lines 275-286: original_message, which the route gives to TicketInput: the
\* preserved message of a waiting thread when the message is an identity line.
RouteOriginalMessage(gate, thread_state) ==
    IF gate = "resume" THEN thread_state.original_message ELSE None

\* original_msg, which the route and the tool write back: the resumed original
\* message if there is one, else the message of the request.
OriginalMsg(original_message, message) ==
    IF Truthy(original_message) THEN original_message ELSE message

\* A request in flight: its TicketInput and thread_id, the simulate_only of the
\* workflow built for it, the simulate_dispatch it asked for (requested),
\* whether it resumes a parked message, and what has
\* happened to its key since it entered: overtaken when the key has been parked
\* since, fresh_park while the state of the key is one that another request parked
\* since and nobody has written after.
Running(ticket_input, thread_id, simulate_only, resumed, requested) ==
    [input |-> ticket_input, thread_id |-> thread_id, simulate_only |-> simulate_only,
     resumed |-> resumed, overtaken |-> FALSE, fresh_park |-> FALSE,
     requested |-> requested]

\* Lines 303-308: the simulate_dispatch the workflow of a request is built with,
\* given the simulate_dispatch of the request.
RouteSimulateDispatchAsRequested(simulate_dispatch) == simulate_dispatch
RouteSimulateDispatch(simulate_dispatch) == TRUE

\* Lines 256-316: from the start of the handler to the await.  The field
\* simulate_dispatch of the request is only logged: the workflow is built with
\* simulate_dispatch=True.  (Each \E over a one-element set names the value of a
\* local variable of the handler.)
RouteEnter(message, thread_id, fields, simulate_dispatch) ==
    \E message_stripped \in {Strip(message)} :
    \E thread_state \in {get_thread_state(_identity_state, _identity_state_by_message,
                                          thread_id, None)} :
    \E gate \in {RouteGate(thread_id, thread_state.waiting_for_identity,
                           message_stripped)} :
    \E original_message \in {RouteOriginalMessage(gate, thread_state)} :
    \E seen \in {[NoEvent EXCEPT
                     !.op = "RouteEnter", !.message = message,
                     !.thread_id = thread_id, !.gate = gate,
                     !.read_state = RouteReadsState(thread_id, message_stripped),
                     !.waiting = (gate \in {"reject", "resume"}),
                     !.requested = simulate_dispatch,
                     !.parked = thread_state.original_message]} :
        /\ deployment.entry = "http"
        /\ BagCardinality(inflight) < MaxInFlight
        /\ UNCHANGED <<cli, deployment, _identity_state, _identity_state_by_message>>
        /\ CASE gate = "bad_request" ->
                    /\ inflight' = inflight
                    /\ ev' = [seen EXCEPT !.http = 400]
             [] gate = "reject" ->
                    /\ inflight' = inflight
                    /\ ev' = [seen EXCEPT
                                 !.http = 200, !.status = "waiting_for_identity",
                                 !.meta_original_message = thread_state.original_message,
                                 !.meta_thread_id = thread_id]
             [] OTHER ->
                    /\ inflight' = inflight (+) SetToBag({
                           Running(TicketInput(message, fields.name, fields.vorname,
                                               fields.email, original_message),
                                   thread_id, RouteSimulateDispatch(simulate_dispatch),
                                   gate = "resume", simulate_dispatch)})
                    /\ ev' = [seen EXCEPT !.input_original = original_message,
                                          !.resumed = (gate = "resume")]

\* The update without the early exits of lines 323-327 and 368-375: a run without
\* result is handled as a run that did not end in missing_identity.
RouteUpdateAlways(ids, msgs, thread_id, status, original_msg) ==
    IF ~Truthy(thread_id)
    THEN [ids |-> ids, msgs |-> msgs]
    ELSE IF status = "missing_identity"
    THEN set_thread_state(ids, msgs, thread_id, TRUE, original_msg)
    ELSE set_thread_state(ids, msgs, thread_id, FALSE, original_msg)

\* Lines 331-351: the two dicts after a run with the given status.
RouteUpdate(ids, msgs, thread_id, status, original_msg) ==
    IF ~Truthy(thread_id) \/ status = "none"
    THEN [ids |-> ids, msgs |-> msgs]
    ELSE IF status = "missing_identity"
    THEN set_thread_state(ids, msgs, thread_id, TRUE, original_msg)
    ELSE set_thread_state(ids, msgs, thread_id, FALSE, original_msg)

\* The requests in flight after request r has ended.  wrote: r has written the
\* state of its key; parks: with waiting_for_identity = true.
AfterWrite(r, wrote, parks) ==
    LET Mark(q) == IF q.thread_id # r.thread_id \/ ~wrote THEN q
                   ELSE [q EXCEPT !.overtaken = @ \/ parks, !.fresh_park = parks]
    IN  BagOfAll(Mark, inflight (-) SetToBag({r}))

\* Lines 356-358: the thread_id entry of the response metadata, None for no
\* entry.
RouteEchoNothing(thread_id) == None
RouteEcho(thread_id) == IF Truthy(thread_id) THEN thread_id ELSE None

\* Lines 319-366: from the end of workflow.run to the response, for one of the
\* requests in flight.
RouteResume ==
    /\ deployment.entry = "http"
    /\ \E r \in BagToSet(inflight) : \E llm \in SessionReplies(r.simulate_only) :
       \E run \in {SessionRuns[r.simulate_only][r.input][llm]} :
       \E status \in {RunStatus(run)} :
       \E original_msg \in {OriginalMsg(r.input.original_message, r.input.message)} :
       \E after \in {RouteUpdate(_identity_state, _identity_state_by_message,
                                 r.thread_id, status, original_msg)} :
       \E wrote \in {Truthy(r.thread_id) /\ status # "none"} :
           /\ _identity_state' = after.ids
           /\ _identity_state_by_message' = after.msgs
           /\ inflight' = AfterWrite(r, wrote, wrote /\ status = "missing_identity")
           /\ ev' = [NoEvent EXCEPT
                        !.op = "RouteResume",
                        !.message = r.input.message, !.thread_id = r.thread_id,
                        !.http = IF status = "none" THEN 500 ELSE 200,
                        !.status = status,
                        !.meta_thread_id = IF status # "none" THEN RouteEcho(r.thread_id)
                                           ELSE None,
                        !.requested = r.requested,
                        !.posted = run.dispatched /\ ~r.simulate_only,
                        !.ran = TRUE, !.resumed = r.resumed, !.waiting = r.resumed,
                        !.read_state = Truthy(r.thread_id),
                        !.overtaken = r.overtaken, !.fresh_park = r.fresh_park,
                        !.input_original = r.input.original_message,
                        !.parked = r.input.original_message,
                        !.context_original = run.original_message,
                        !.raised = run.raised,
                        !.detail = ErrorDetail(deployment.entry, run),
                        !.extracted = run.extracted, !.classified = run.classified,
                        !.dispatched = run.dispatched, !.anfrage = run.anfrage]
           /\ UNCHANGED <<cli, deployment>>

(***************************************************************************)
(* The conversational tool process_ticket of chat_agents_system.workflow.   *)
(* The agent calls the synchronous function and waits for its result: a     *)
(* call runs from its start to its end before the next one starts.          *)
(***************************************************************************)
\* The original_message argument a caller may pass: none, the empty text or a text.
ToolArgs == {None, MsgEmpty, MsgHelp}

\* Lines 236-250: the state the tool looks up, with thread_id, else with the
\* message.
ToolLookup(ids, msgs, thread_id, message) ==
    IF Truthy(thread_id)
    THEN get_thread_state(ids, msgs, thread_id, None)
    ELSE get_thread_state(ids, msgs, None, message)

\* Lines 252-285: what the tool does with the looked-up state.
\*   "reject"  the session waits and the message is no identity line
\*   "resume"  the session waits and the message is an identity line
\*   "fresh"   the session does not wait
ToolGate(waiting_for_identity, is_identity_format) ==
    IF waiting_for_identity /\ ~is_identity_format THEN "reject"
    ELSE IF waiting_for_identity THEN "resume"
    ELSE "fresh"

ResolvedOriginalMessageArg(original_message, gate, thread_state) == original_message

\* Lines 228, 282-285: resolved_original_message.
ResolvedOriginalMessage(original_message, gate, thread_state) ==
    IF gate = "resume" /\ ~Truthy(original_message)
    THEN thread_state.original_message
    ELSE original_message

ToolUpdateNoPark(ids, msgs, thread_id, status, original_msg) ==
    IF status = "completed"
    THEN set_thread_state(ids, msgs, thread_id, FALSE, original_msg)
    ELSE [ids |-> ids, msgs |-> msgs]

\* Lines 330-343: the two dicts after a run with the given status.
ToolUpdate(ids, msgs, thread_id, status, original_msg) ==
    IF status = "missing_identity"
    THEN set_thread_state(ids, msgs, thread_id, TRUE, original_msg)
    ELSE IF status = "completed"
    THEN set_thread_state(ids, msgs, thread_id, FALSE, original_msg)
    ELSE [ids |-> ids, msgs |-> msgs]

\* process_ticket(message, original_message, thread_id), lines 190-364.  (Each
\* \E over a one-element set names the value of a local variable of the function.)
ToolCall(message, original_message, thread_id) ==
    \E is_identity_format \in {IDENTITY_FORMAT_PATTERN(Strip(message))} :
    \E thread_state \in {ToolLookup(_identity_state, _identity_state_by_message,
                                    thread_id, message)} :
    \E gate \in {ToolGate(thread_state.waiting_for_identity, is_identity_format)} :
    \E resolved \in {ResolvedOriginalMessage(original_message, gate, thread_state)} :
    \E ticket_input \in {TicketInput(message, None, None, None,
                                     IF Truthy(resolved) THEN resolved ELSE None)} :
    \E seen \in {[NoEvent EXCEPT
                     !.op = "ToolCall", !.message = message, !.thread_id = thread_id,
                     !.arg = original_message, !.gate = gate, !.read_state = TRUE,
                     !.waiting = thread_state.waiting_for_identity,
                     !.parked = thread_state.original_message]} :
        /\ deployment.entry = "tool"
        /\ UNCHANGED <<cli, deployment, inflight>>
        /\ IF gate = "reject"
           THEN /\ UNCHANGED <<_identity_state, _identity_state_by_message>>
                /\ ev' = [seen EXCEPT
                             !.status = "waiting_for_identity",
                             !.meta_original_message = thread_state.original_message]
           ELSE \E llm \in SessionReplies(deployment.simulate_dispatch) :
                \E run \in {SessionRuns[deployment.simulate_dispatch][ticket_input][llm]} :
                \E status \in {RunStatus(run)} :
                \E after \in {IF status = "none"
                               THEN [ids |-> _identity_state,
                                     msgs |-> _identity_state_by_message]
                               ELSE ToolUpdate(_identity_state, _identity_state_by_message,
                                               thread_id, status,
                                               OriginalMsg(resolved, message))} :
                    /\ _identity_state' = after.ids
                    /\ _identity_state_by_message' = after.msgs
                    /\ ev' = [seen EXCEPT
                                 !.status = IF status = "none" THEN "error" ELSE status,
                                 !.meta_original_message =
                                     IF status # "none" /\ Truthy(resolved)
                                     THEN resolved ELSE None,
                                 !.ran = TRUE, !.resumed = (gate = "resume"),
                                 !.input_original = ticket_input.original_message,
                                 !.context_original = run.original_message,
                                 !.raised = run.raised,
                                 !.detail = ErrorDetail(deployment.entry, run),
                                 !.extracted = run.extracted,
                                 !.classified = run.classified,
                                 !.dispatched = run.dispatched,
                                 !.anfrage = run.anfrage]

(***************************************************************************)
(* The conversational tool process_ticket of the older                      *)
(* obungi_chat_agents_system.workflow.  Its module keeps one dict,          *)
(* _identity_state, from state keys to states; a call is synchronous.       *)
(***************************************************************************)
\* _get_state_key(thread_id, message): "thread_<id>", "msg_<digest>" or "default",
\* as the sequence of its two parts.
_get_state_key(thread_id, message) ==
    IF Truthy(thread_id) THEN <<"thread_">> \o thread_id
    ELSE IF Truthy(message) THEN <<"msg_", ToString(_hash_message(message))>>
    ELSE <<"default">>

\* _identity_state.get(state_key, {"waiting_for_identity": False, "original_message": None})
ObungiLookup(ids, state_key) ==
    IF DictHas(ids, state_key) THEN DictGet(ids, state_key) ELSE DefaultState

\* Lines 134-154: the tool answers "waiting_for_identity" itself ("reject") or
\* runs the workflow ("run").
ObungiGate(waiting_for_identity, original_message, is_identity_format) ==
    IF waiting_for_identity /\ ~Truthy(original_message) /\ ~is_identity_format
    THEN "reject" ELSE "run"

\* Lines 156-165: combined_message
CombinedMessage(original_message, message) ==
    IF Truthy(original_message) THEN original_message \o Separator \o message
    ELSE message

\* Lines 208-229: _identity_state after a run with the given status.
ObungiUpdate(ids, thread_id, status, combined_message, original_message) ==
    IF status = "missing_identity"
    THEN LET original_msg == IF ~Truthy(original_message) THEN combined_message
                             ELSE original_message
         IN  DictSet(ids, _get_state_key(thread_id, original_msg),
                     [waiting_for_identity |-> TRUE, original_message |-> original_msg])
    ELSE IF status = "completed"
    THEN SelectSeq(ids, LAMBDA item :
                            ~(\/ item[2].original_message = combined_message
                              \/ item[2].original_message = original_message))
    ELSE ids

\* The TicketInput values the older tool builds, and workflow.run on each of
\* them, computed once.  (The older TicketInput has no original_message.)
ObungiInputs ==
    {TicketInput(CombinedMessage(o, m), None, None, None, None) :
        m \in Messages, o \in ToolArgs}

ObungiRuns ==
    [simulate_only \in BOOLEAN |-> [ticket_input \in ObungiInputs |->
     [llm \in SessionReplies(simulate_only) |->
         ObungiWorkflowRun(ticket_input, simulate_only, llm)]]]

\* process_ticket(message, original_message, thread_id), lines 73-244.  A run
\* that raises or yields nothing is answered with status "error" and leaves the
\* dict as it is.
ObungiToolCall(message, original_message, thread_id) ==
    \E state_key \in {_get_state_key(thread_id, IF Truthy(original_message)
                                               THEN original_message ELSE message)} :
    \E thread_state \in {ObungiLookup(_identity_state, state_key)} :
    \E gate \in {ObungiGate(thread_state.waiting_for_identity, original_message,
                            IDENTITY_FORMAT_PATTERN(Strip(message)))} :
    \E combined_message \in {CombinedMessage(original_message, message)} :
    \E seen \in {[NoEvent EXCEPT
                     !.op = "ObungiToolCall", !.message = message,
                     !.thread_id = thread_id, !.arg = original_message,
                     !.gate = gate, !.read_state = TRUE,
                     !.waiting = thread_state.waiting_for_identity,
                     !.parked = thread_state.original_message]} :
        /\ deployment.entry = "obungi_tool"
        /\ UNCHANGED <<cli, deployment, inflight, _identity_state_by_message>>
        /\ IF gate = "reject"
           THEN /\ UNCHANGED _identity_state
                /\ ev' = [seen EXCEPT
                             !.status = "waiting_for_identity",
                             !.meta_original_message = thread_state.original_message]
           ELSE \E llm \in SessionReplies(deployment.simulate_dispatch) :
                \E run \in {ObungiRuns[deployment.simulate_dispatch]
                                      [TicketInput(combined_message, None, None, None, None)]
                                      [llm]} :
                \E status \in {RunStatus(run)} :
                    /\ _identity_state' =
                           ObungiUpdate(_identity_state, thread_id, status,
                                        combined_message, original_message)
                    /\ ev' = [seen EXCEPT
                                 !.status = IF status = "none" THEN "error" ELSE status,
                                 !.meta_original_message =
                                     IF status # "none" /\ Truthy(original_message)
                                     THEN original_message ELSE None,
                                 !.ran = TRUE,
                                 !.resumed = thread_state.waiting_for_identity,
                                 !.context_original = run.original_message,
                                 !.raised = run.raised,
                                 !.detail = ErrorDetail(deployment.entry, run),
                                 !.extracted = run.extracted,
                                 !.classified = run.classified,
                                 !.dispatched = run.dispatched,
                                 !.anfrage = run.anfrage]

Next ==
    \/ \E message \in Messages, thread_id \in ThreadIds \cup {None},
          fields \in FieldChoices, simulate_dispatch \in BOOLEAN :
          RouteEnter(message, thread_id, fields, simulate_dispatch)
    \/ RouteResume
    \/ \E message \in Messages, original_message \in ToolArgs,
          thread_id \in ThreadIds \cup {None} :
          ToolCall(message, original_message, thread_id)
    \/ \E message \in Messages, original_message \in ToolArgs,
          thread_id \in ThreadIds \cup {None} :
          ObungiToolCall(message, original_message, thread_id)

Spec == Init /\ [][Next]_vars

(***************************************************************************)
(* Properties of the HTTP route                                             *)
(***************************************************************************)
\* The state the store holds for a thread_id.
Stored(thread_id) ==
    get_thread_state(_identity_state, _identity_state_by_message, thread_id, None)

\* C1: in the HTTP route, a request with a thread_id whose stored state is
\* waiting and whose trimmed message is not in the strict format is answered with
\* status waiting_for_identity; no workflow run is started for it and the two
\* dicts of the store stay as they are.
C1_RouteKeepsWaiting ==
    [][(/\ ev'.op = "RouteEnter"
        /\ Truthy(ev'.thread_id)
        /\ Stored(ev'.thread_id).waiting_for_identity
        /\ ~IDENTITY_FORMAT_PATTERN(Strip(ev'.message)))
       => /\ ev'.http = 200
          /\ ev'.status = "waiting_for_identity"
          /\ ~ev'.ran
          /\ inflight' = inflight
          /\ _identity_state' = _identity_state
          /\ _identity_state_by_message' = _identity_state_by_message]_vars

\* A waiting thread has just received a message that is no identity line.
C1_Witness ==
    /\ ev.op = "RouteEnter"
    /\ ev.gate = "reject"
    /\ ev.status = "waiting_for_identity"
    /\ Stored(ev.thread_id).waiting_for_identity
    /\ ~IDENTITY_FORMAT_PATTERN(Strip(ev.message))

\* C5: a request to the HTTP route without thread_id whose trimmed message is in
\* the strict format is answered with HTTP 400; the session state is not read, no
\* workflow run is started and the store stays as it is.
C5_RouteBadRequest ==
    [][(/\ ev'.op = "RouteEnter"
        /\ ~Truthy(ev'.thread_id)
        /\ IDENTITY_FORMAT_PATTERN(Strip(ev'.message)))
       => /\ ev'.http = 400
          /\ ~ev'.read_state
          /\ ~ev'.ran
          /\ inflight' = inflight
          /\ _identity_state' = _identity_state
          /\ _identity_state_by_message' = _identity_state_by_message]_vars

\* An identity line without thread_id has just been answered, while a request
\* is in flight.
C5_Witness ==
    /\ ev.op = "RouteEnter"
    /\ ev.http = 400
    /\ ~Truthy(ev.thread_id)
    /\ IDENTITY_FORMAT_PATTERN(Strip(ev.message))
    /\ inflight # EmptyBag

C6_ParkedMessageResumedOnce ==
    \A r1 \in BagToSet(inflight), r2 \in BagToSet(inflight) :
        (/\ r1.resumed /\ ~r1.overtaken
         /\ r2.resumed /\ ~r2.overtaken
         /\ r1.thread_id = r2.thread_id)
        => (r1 = r2 /\ CopiesIn(r1, inflight) = 1)

\* C7: a request that ends while the state of its thread is one that another
\* request parked after it had started leaves that state as it is.
C7_FreshParkSurvives ==
    [][(ev'.op = "RouteResume" /\ ev'.fresh_park)
       => /\ _identity_state' = _identity_state
          /\ _identity_state_by_message' = _identity_state_by_message]_vars

(***************************************************************************)
(* Properties of the session store under the route and the tools            *)
(***************************************************************************)
\* The state of a key of one of the two dicts, in the post-state.
ParkedWith(d, key, original_message) ==
    /\ DictHas(d, key)
    /\ DictGet(d, key) = [waiting_for_identity |-> TRUE,
                          original_message |-> original_message]

\* A run of the route or of the conversational tool has just ended, started on
\* a session that was not waiting, with status missing_identity.
FreshRunMissesIdentity(e) ==
    /\ e.op \in {"RouteResume", "ToolCall"}
    /\ e.ran
    /\ ~e.waiting
    /\ e.status = "missing_identity"

\* C3: when a run of the HTTP route or of the conversational tool on a session
\* that is not waiting ends with status missing_identity, the store afterwards
\* holds waiting_for_identity = true for the session key, with original_message
\* equal to the original_message argument of the caller if it is non-empty and
\* to the message of the request otherwise.  The key is the thread_id; for the
\* tool without thread_id it is the fingerprint of that original text, and
\* nothing is stored when that text is empty; the route without thread_id
\* stores nothing.
C3_ParksOriginalMessage ==
    [][FreshRunMissesIdentity(ev') =>
          LET original == IF Truthy(ev'.arg) THEN ev'.arg ELSE ev'.message
          IN  IF Truthy(ev'.thread_id)
              THEN /\ ParkedWith(_identity_state', ev'.thread_id, original)
                   /\ _identity_state_by_message' = _identity_state_by_message
              ELSE IF ev'.op = "ToolCall" /\ Truthy(original)
              THEN /\ ParkedWith(_identity_state_by_message',
                                 _hash_message(original), original)
                   /\ _identity_state' = _identity_state
              ELSE /\ _identity_state' = _identity_state
                   /\ _identity_state_by_message' = _identity_state_by_message]_vars

\* The tool has parked a thread-less request under the fingerprint of the
\* original_message its caller supplied.
C3_Witness ==
    /\ FreshRunMissesIdentity(ev)
    /\ ev.op = "ToolCall"
    /\ ~Truthy(ev.thread_id)
    /\ ev.message = MsgLogin
    /\ ev.arg = MsgHelp
    /\ ParkedWith(_identity_state_by_message, _hash_message(MsgHelp), MsgHelp)

\* C3 as the specification states it: the preserved original message is the
\* message text of the request.
C3_AsStated ==
    [][(FreshRunMissesIdentity(ev') /\ Truthy(ev'.thread_id))
       => ParkedWith(_identity_state', ev'.thread_id, ev'.message)]_vars

\* What get_thread_state returns, after the step, for the session key of the run
\* that ended in it: the thread_id, or for the tool without thread_id the text
\* whose fingerprint it writes.
LookupAfter(e, ids, msgs) ==
    IF e.op = "ToolCall"
    THEN ToolLookup(ids, msgs, e.thread_id,
                    IF Truthy(e.input_original) THEN e.input_original ELSE e.message)
    ELSE get_thread_state(ids, msgs, e.thread_id, None)

\* C4: after a run of the HTTP route or of the conversational tool that ends
\* with status completed, get_thread_state on the session key of the run returns
\* waiting_for_identity = false.
C4_CompletedRunClears ==
    [][(/\ ev'.op \in {"RouteResume", "ToolCall"}
        /\ ev'.ran
        /\ ev'.status = "completed")
       => ~LookupAfter(ev', _identity_state', _identity_state_by_message')
              .waiting_for_identity]_vars

\* C8: a run of the HTTP route or of the conversational tool with a thread_id
\* that ends with status completed or unsupported leaves the state of its
\* thread_id not waiting.
C8_FormatterClears ==
    [][(/\ ev'.op \in {"RouteResume", "ToolCall"}
        /\ ev'.ran
        /\ Truthy(ev'.thread_id)
        /\ ev'.status \in {"completed", "unsupported"})
       => ~get_thread_state(_identity_state', _identity_state_by_message',
                            ev'.thread_id, None).waiting_for_identity]_vars

\* C9: in the conversational tool and in the older one, a call that finds its
\* session waiting for identity and whose trimmed message is not in the strict
\* format is answered with status waiting_for_identity, without a workflow run
\* and with the store as it was, whatever original_message and thread_id are.
C9_ToolRejectsWhileWaiting ==
    [][(/\ ev'.op \in {"ToolCall", "ObungiToolCall"}
        /\ ev'.waiting
        /\ ~IDENTITY_FORMAT_PATTERN(Strip(ev'.message)))
       => /\ ev'.status = "waiting_for_identity"
          /\ ~ev'.ran
          /\ _identity_state' = _identity_state
          /\ _identity_state_by_message' = _identity_state_by_message]_vars

\* A call of the conversational tool without thread_id has just ended.
ThreadlessToolCall(e) == e.op = "ToolCall" /\ ~Truthy(e.thread_id)

IdentityFieldsOf(reply) ==
    LET parts == CommaParts(reply)
    IN  [name |-> parts[1], vorname |-> parts[2], email |-> Lower(EmailSearch(parts[3]))]

\* TicketContext.original_message the stages after the extraction see in a fresh
\* run on message with the identity fields supplied: the context the intake
\* builds in the older workflow, the one the identity extractor builds in the
\* newer one (which asks no service when the three fields are there).
FreshOriginalMessage(entry, message, fields) ==
    IF entry = "obungi_tool"
    THEN IntakeHandle(TicketInput(message, fields.name, fields.vorname, fields.email,
                                  None)).sent.original_message
    ELSE IdentityExtractorHandle(TicketInput(message, fields.name, fields.vorname,
                                             fields.email, None),
                                 ExtractRaise).step.sent.original_message

\* C11: a run that resumes a session parked with original message M, on a reply
\* R in the strict format (a tool caller passing no original_message, or M
\* itself), gives the stages after the extraction the same
\* TicketContext.original_message as a fresh run on M with the identity fields
\* of R supplied.
C11_ResumeEqualsFresh ==
    [][(/\ ev'.ran
        /\ ev'.resumed
        /\ ~Truthy(ev'.arg) \/ ev'.arg = ev'.parked
        /\ IDENTITY_FORMAT_PATTERN(Strip(ev'.message)))
       => ev'.context_original =
              FreshOriginalMessage(deployment.entry, ev'.parked,
                                   IdentityFieldsOf(Strip(ev'.message)))]_vars

(***************************************************************************)
(* Properties of the store                                                  *)
(***************************************************************************)
\* The store has an entry under the own key of a lookup: the thread_id, or
\* without one the fingerprint of the message.
HasOwnEntry(ids, msgs, thread_id, message) ==
    IF Truthy(thread_id) THEN DictHas(ids, thread_id)
    ELSE Truthy(message) /\ DictHas(msgs, _hash_message(message))

\* C12: in every state of the store, a lookup whose own key has no entry
\* returns the default state (not waiting, no original message), for every
\* thread_id and message: get_thread_state on the two dicts of the newer
\* module, the lookup by state key on the dict of the older one.
C12_MissingKeyGivesDefault ==
    \A thread_id \in ThreadIds \cup {None}, message \in Messages \cup {None} :
        IF deployment.entry = "obungi_tool"
        THEN ~DictHas(_identity_state, _get_state_key(thread_id, message))
             => ObungiLookup(_identity_state, _get_state_key(thread_id, message))
                    = DefaultState
        ELSE ~HasOwnEntry(_identity_state, _identity_state_by_message, thread_id, message)
             => get_thread_state(_identity_state, _identity_state_by_message,
                                 thread_id, message) = DefaultState

\* The step has called set_thread_state: the route after a run with a thread_id,
\* the conversational tool after a run that missed the identity or completed.
CalledSet(e) ==
    /\ e.ran
    /\ \/ e.op = "RouteResume" /\ Truthy(e.thread_id) /\ e.status # "none"
       \/ e.op = "ToolCall" /\ e.status \in {"missing_identity", "completed"}

\* The state that call has written: waiting with the original text of the run,
\* or, for a clear, none (a lookup then gives the default).
WrittenState(e) ==
    IF e.status = "missing_identity"
    THEN [waiting_for_identity |-> TRUE,
          original_message |-> OriginalMsg(e.input_original, e.message)]
    ELSE DefaultState

\* C13: after a step that calls set_thread_state on a session key, the lookup
\* of that key returns exactly the state the call has written (the default after
\* a clear), and the entries of every other key of the two dicts are as they
\* were.
C13_LastWriterWins ==
    [][CalledSet(ev') =>
          LET original == OriginalMsg(ev'.input_original, ev'.message)
          IN  /\ LookupAfter(ev', _identity_state', _identity_state_by_message')
                     = WrittenState(ev')
              /\ IF Truthy(ev'.thread_id)
                 THEN /\ DictPop(_identity_state', ev'.thread_id)
                            = DictPop(_identity_state, ev'.thread_id)
                      /\ _identity_state_by_message' = _identity_state_by_message
                 ELSE /\ _identity_state' = _identity_state
                      /\ DictPop(_identity_state_by_message', _hash_message(original))
                            = DictPop(_identity_state_by_message, _hash_message(original))]_vars

(***************************************************************************)
(* The workflows on their own: one run of create_ticket_workflow (of either *)
(* package) on a TicketInput, with the answers of the text-generation       *)
(* service and of the dispatch endpoint drawn from small sets.  A workflow  *)
(* object keeps nothing from one run to the next: a behaviour is one run.   *)
(***************************************************************************)
\* Identity fields a TicketInput may carry: absent, empty, blank or present.
PipelineNames == {None, << >>, <<" ">>, <<"M", "a", "i">>}
PipelineVornames == {None, <<"H", "a", "n", "s">>}
PipelineEmails == {None, <<"h", "@", "x", ".", "d", "e">>}

PipelineInputs ==
    {TicketInput(m, n, v, e, o) :
        m \in {MsgLogin, MsgIdentityPadded, MsgEmpty}, n \in PipelineNames,
        v \in PipelineVornames, e \in PipelineEmails, o \in {None, MsgHelp}}

\* Answers to the extraction prompt: a failed call, nothing found, everything
\* found, and a name with a blank vorname and a text without address.
PipelineExtracts ==
    {ExtractRaise,
     ExtractReply(None, None, None),
     ExtractReply(<<"A", "b", "t">>, <<"E", "v", "a">>, <<" ", "E", "@", "X", ".", "D", "E">>),
     ExtractReply(<<"A", "b", "t">>, <<" ">>, <<"e", "v", "a">>)}

\* The label of a category as the service may write it: in other letter case
\* and with blanks around it.
Relabel(category) == <<" ">> \o Lower(CategoryValue(category)) \o <<"\n">>

\* Answers to the classification prompt: a failed call, no JSON, a JSON value
\* that is no object, an object without category, with an unknown or empty
\* label, and with the label of each category.
PipelineClassifies ==
    {ClassifyRaise,
     ClassifyReply("empty", None, None, None),
     ClassifyReply("list", None, None, None),
     ClassifyReply("dict", None, SummaryShort, None),
     ClassifyReply("dict", << >>, None, None),
     ClassifyReply("dict", <<"V", "P", "N">>, SummaryShort, MsgHelp)}
    \cup {ClassifyReply("dict", Relabel(TicketCategory[i]), SummaryShort, None) :
              i \in 1..Len(TicketCategory)}

PipelineReplies ==
    {Replies(x, c, h, t) :
        x \in PipelineExtracts, c \in PipelineClassifies,
        h \in {None, <<" ", "E", "L", "I", "Z", "A">>, HistorianRaise}, t \in BOOLEAN}

\* The process runs one of the two workflows, with or without a simulating
\* dispatcher.
PipelineDeployments ==
    {[entry |-> e, simulate_dispatch |-> b] :
        e \in {"workflow", "obungi_workflow"}, b \in BOOLEAN}

PipelineInit ==
    /\ deployment \in PipelineDeployments
    /\ _identity_state = << >>
    /\ _identity_state_by_message = << >>
    /\ inflight = EmptyBag
    /\ ev = NoEvent
    /\ cli = NoMain

\* What a run leaves in ev: its input, the answers it got and what it did.
RunEvent(op, ticket_input, llm, run) ==
    [op |-> op, input |-> ticket_input, llm |-> llm, run |-> run]

\* workflow.run(ticket_input) on the workflow of chat_agents_system
RunTicketWorkflow(ticket_input, llm) ==
    /\ deployment.entry = "workflow"
    /\ ev = NoEvent
    /\ ev' = RunEvent("WorkflowRun", ticket_input, llm,
                      WorkflowRun(ticket_input, deployment.simulate_dispatch, llm))
    /\ UNCHANGED <<cli, deployment, _identity_state, _identity_state_by_message, inflight>>

\* workflow.run(ticket_input) on the workflow of obungi_chat_agents_system,
\* whose TicketInput has no original_message
RunObungiWorkflow(ticket_input, llm) ==
    /\ deployment.entry = "obungi_workflow"
    /\ ev = NoEvent
    /\ ticket_input.original_message = None
    /\ ev' = RunEvent("ObungiWorkflowRun", ticket_input, llm,
                      ObungiWorkflowRun(ticket_input, deployment.simulate_dispatch, llm))
    /\ UNCHANGED <<cli, deployment, _identity_state, _identity_state_by_message, inflight>>

PipelineNext ==
    \/ /\ ev = NoEvent
       /\ \E ticket_input \in PipelineInputs, llm \in PipelineReplies :
             RunTicketWorkflow(ticket_input, llm)
    \/ /\ ev = NoEvent
       /\ \E ticket_input \in PipelineInputs, llm \in PipelineReplies :
             RunObungiWorkflow(ticket_input, llm)

PipelineSpec == PipelineInit /\ [][PipelineNext]_vars

\* A run of one of the two workflows has just ended.
IsRun(e) == e.op \in {"WorkflowRun", "ObungiWorkflowRun"}

\* The place of each executor in the pipeline.
PipelineOrder ==
    <<"intake", "identity", "validation", "classification", "historian", "dispatcher",
      "response_formatter">>

StageRank(stage) == CHOOSE i \in 1..Len(PipelineOrder) : PipelineOrder[i] = stage

\* The executors of a trace ran in pipeline order, each at most once.
InPipelineOrder(trace) ==
    \A i \in 1..Len(trace), j \in 1..Len(trace) :
        i < j => StageRank(trace[i]) < StageRank(trace[j])

\* The part of a trace up to the identity gate.
UpToGate(e) ==
    IF e.op = "ObungiWorkflowRun" THEN <<"intake", "identity", "validation">>
    ELSE <<"identity", "validation">>

\* C14: in every run the executors run in pipeline order, beginning with the
\* extraction and the identity gate; and when a required field is missing at
\* the gate, nothing runs after the gate (no classification, historian,
\* dispatcher or formatter) and the one response of the run has status
\* missing_identity.
C14_PipelineOrder ==
    IsRun(ev) =>
        /\ InPipelineOrder(ev.run.trace)
        /\ SubSeq(ev.run.trace, 1, Len(UpToGate(ev))) = UpToGate(ev)
        /\ MissingOf(ev.run.validated) # << >>
           => /\ ev.run.trace = UpToGate(ev)
              /\ Len(ev.run.outputs) = 1
              /\ ev.run.outputs[1].status = "missing_identity"
              /\ ~ev.run.raised

\* A run of the newer workflow has stopped at the gate, with name and vorname
\* there and the email missing.
C14_Witness ==
    /\ ev.op = "WorkflowRun"
    /\ Truthy(ev.run.validated.name)
    /\ Truthy(ev.run.validated.vorname)
    /\ ~Truthy(ev.run.validated.email)
    /\ ev.run.trace = <<"identity", "validation">>
    /\ RunStatus(ev.run) = "missing_identity"

\* The labels of a sequence of fields.
LabelsOf(attrs) == [i \in 1..Len(attrs) |-> LabelOf(attrs[i])]

\* The gate has stopped the run: one response with status missing_identity,
\* nothing forwarded.
GateStops(g) ==
    /\ g.kind = "yield"
    /\ g.sent = None
    /\ Len(g.out) = 1
    /\ g.out[1].status = "missing_identity"

\* C15: the identity gate forwards the context it was given, unchanged, exactly
\* when name, vorname and email are all non-empty; otherwise it forwards nothing
\* and yields status missing_identity, whose metadata names, with their labels,
\* the absent fields in the older workflow and all three required fields in the
\* newer one.
C15_GateForwardsOrReports ==
    IsRun(ev) =>
        LET context == ev.run.validated
            g == ev.run.gate
            reported == IF ev.op = "ObungiWorkflowRun" THEN MissingOf(context)
                        ELSE <<"name", "vorname", "email">>
        IN  IF Truthy(context.name) /\ Truthy(context.vorname) /\ Truthy(context.email)
            THEN g.kind = "send" /\ g.sent = context /\ g.out = << >>
            ELSE /\ GateStops(g)
                 /\ g.out[1].metadata.missing_fields = reported
                 /\ g.out[1].metadata.missing_labels = LabelsOf(reported)

\* The gate of the newer workflow has stopped a context that lacks only the
\* email, and has reported all three fields.
C15_Witness ==
    /\ ev.op = "WorkflowRun"
    /\ MissingOf(ev.run.validated) = <<"email">>
    /\ GateStops(ev.run.gate)
    /\ ev.run.gate.out[1].metadata.missing_fields = <<"name", "vorname", "email">>

\* C15 as the specification states it: the missing_fields of the response are
\* exactly the absent fields.
C15_AsStated ==
    (IsRun(ev) /\ MissingOf(ev.run.validated) # << >>)
    => /\ GateStops(ev.run.gate)
       /\ ev.run.gate.out[1].metadata.missing_fields = MissingOf(ev.run.validated)

\* stage is one of the executors of a trace.
Ran(trace, stage) == \E i \in 1..Len(trace) : trace[i] = stage

\* The executor that ran right after the classification, "none" when the run
\* ended there.
AfterClassification(trace) ==
    IF \E i \in 1..(Len(trace) - 1) : trace[i] = "classification"
    THEN trace[(CHOOSE i \in 1..(Len(trace) - 1) : trace[i] = "classification") + 1]
    ELSE "none"

\* C16: in the newer workflow, after a classification that forwards its
\* context exactly one executor follows, and the category alone selects it: the
\* historian for a history question, the dispatcher (and not the historian)
\* for O365, hardware and login, the formatter (and neither historian nor
\* dispatcher) for the category "other".  No category satisfies the conditions
\* of two cases.
C16_RouterTotalExclusive ==
    /\ \A i \in 1..Len(TicketCategory) :
          LET context == [TicketContext(MsgLogin, None, None, None)
                             EXCEPT !.category = TicketCategory[i]]
          IN  ~(is_ai_history(context) /\ is_dispatchable(context))
    /\ (ev.op = "WorkflowRun" /\ Ran(ev.run.trace, "classification") /\ ~ev.run.raised)
       => LET trace == ev.run.trace
              category == ev.run.category
          IN  /\ \E i \in 1..Len(TicketCategory) : category = TicketCategory[i]
              /\ category = AI_HISTORY
                 => AfterClassification(trace) = "historian"
              /\ category \in {O365, HARDWARE, LOGIN}
                 => /\ AfterClassification(trace) = "dispatcher"
                    /\ ~Ran(trace, "historian")
              /\ category = SONSTIGES
                 => /\ AfterClassification(trace) = "response_formatter"
                    /\ ~Ran(trace, "historian")
                    /\ ~Ran(trace, "dispatcher")
                    /\ ~ev.run.dispatched

\* A request classified "other" has gone from the classification straight to
\* the formatter.
C16_Witness ==
    /\ ev.op = "WorkflowRun"
    /\ ev.run.category = SONSTIGES
    /\ ev.llm.classify.category = Relabel(SONSTIGES)
    /\ ev.run.trace = <<"identity", "validation", "classification", "response_formatter">>

\* The one response of a run that yielded one.
TerminalResponse(run) == run.outputs[Len(run.outputs)]

\* The executor that ran right after the historian, "none" when the run ended
\* there.
AfterHistorian(trace) ==
    IF \E i \in 1..(Len(trace) - 1) : trace[i] = "historian"
    THEN trace[(CHOOSE i \in 1..(Len(trace) - 1) : trace[i] = "historian") + 1]
    ELSE "none"

\* A run whose classification has found a history question.
HistoryRun(e) ==
    /\ IsRun(e)
    /\ Ran(e.run.trace, "classification")
    /\ e.run.category = AI_HISTORY

LastStage(trace) == trace[Len(trace)]

\* C18: every run that ends without an exception yields exactly one response,
\* and it is the response of the executor the run ended in: missing_identity
\* of the validation, dispatch_error of the dispatcher, or completed or
\* unsupported of the formatter.
C18_OneTerminalResponse ==
    (IsRun(ev) /\ ~ev.run.raised) =>
        /\ Len(ev.run.outputs) = 1
        /\ \/ /\ LastStage(ev.run.trace) = "validation"
              /\ ev.run.outputs[1].status = "missing_identity"
           \/ /\ LastStage(ev.run.trace) = "dispatcher"
              /\ ev.run.outputs[1].status = "dispatch_error"
           \/ /\ LastStage(ev.run.trace) = "response_formatter"
              /\ ev.run.outputs[1].status \in {"completed", "unsupported"}

\* A run has ended in the dispatcher, whose POST failed, with the one response
\* dispatch_error.
C18_Witness ==
    /\ IsRun(ev)
    /\ ~ev.run.raised
    /\ ~ev.llm.transport_ok
    /\ LastStage(ev.run.trace) = "dispatcher"
    /\ Len(ev.run.outputs) = 1
    /\ ev.run.outputs[1].status = "dispatch_error"

\* The classification of a run failed: the call failed, or the text had no JSON
\* in it ("empty"), or its JSON value is no object ("list"), or the object has
\* no category label that equals a label of the enumeration.
ClassificationFailed(classify) ==
    \/ classify.raised
    \/ classify.parsed \in {"empty", "list"}
    \/ /\ classify.parsed = "dict"
       /\ \/ ~Truthy(classify.category)
          \/ \A i \in 1..Len(TicketCategory) :
                 Lower(CategoryValue(TicketCategory[i])) # Lower(Strip(classify.category))

\* C19: a run whose classification failed raises nothing, continues with the
\* category "other" and ends with the one response unsupported.
C19_ClassificationFailureAbsorbed ==
    (IsRun(ev) /\ Ran(ev.run.trace, "classification")
               /\ ClassificationFailed(ev.llm.classify)) =>
        /\ ~ev.run.raised
        /\ ev.run.category = SONSTIGES
        /\ LastStage(ev.run.trace) = "response_formatter"
        /\ Len(ev.run.outputs) = 1
        /\ TerminalResponse(ev.run).status = "unsupported"

\* C20: an exception that leaves a workflow run is caught at the entry point
\* and leaves the session state as it was.  The tools return a response with
\* status error that has the exception text in its message and no metadata;
\* the route answers HTTP 500 with the exception text as detail and no
\* response body of its own.
C20_ExceptionAnsweredAtEntry ==
    [][(ev'.ran /\ ev'.raised) =>
          /\ _identity_state' = _identity_state
          /\ _identity_state_by_message' = _identity_state_by_message
          /\ ev'.meta_thread_id = None
          /\ ev'.meta_original_message = None
          /\ IF deployment.entry = "http"
             THEN ev'.http = 500 /\ ev'.status = "none" /\ ev'.detail = "http_detail"
             ELSE ev'.http = 0 /\ ev'.status = "error" /\ ev'.detail = "message"]_vars

\* A call of the conversational tool on a waiting thread has resumed the
\* parked request, the run has raised, and the call has returned status error.
C20_Witness ==
    /\ ev.op = "ToolCall"
    /\ ev.ran
    /\ ev.resumed
    /\ ev.raised
    /\ ev.status = "error"
    /\ ev.detail = "message"

\* C20 as the specification states it: every exception of a run is answered by
\* a response with status error and the detail in its metadata, never by a
\* failed request.
C20_AsStated ==
    [][(ev'.ran /\ ev'.raised) =>
          /\ ev'.http # 500
          /\ ev'.status = "error"
          /\ ev'.detail = "metadata"]_vars

\* The dispatcher of a run was given a dispatchable category, does not
\* simulate, and its POST failed.
TransportFailed(e) ==
    /\ IsRun(e)
    /\ Ran(e.run.trace, "dispatcher")
    /\ e.run.category \in DISPATCHABLE
    /\ ~deployment.simulate_dispatch
    /\ ~e.llm.transport_ok

\* C21: when the POST of a dispatcher that does not simulate fails, the run
\* ends in the dispatcher with the one response dispatch_error, whose metadata
\* carries the error and the payload that was not sent; the formatter does not
\* run and there is no completed response.
C21_TransportFailureStopsRun ==
    TransportFailed(ev) =>
        /\ ~ev.run.raised
        /\ LastStage(ev.run.trace) = "dispatcher"
        /\ ~Ran(ev.run.trace, "response_formatter")
        /\ Len(ev.run.outputs) = 1
        /\ ev.run.outputs[1].status = "dispatch_error"
        /\ ev.run.outputs[1].payload = None
        /\ ev.run.outputs[1].metadata.error = "HTTPError"
        /\ ev.run.outputs[1].metadata.payload.name = ev.run.validated.name
        /\ ev.run.outputs[1].metadata.payload.vorname = ev.run.validated.vorname
        /\ ev.run.outputs[1].metadata.payload.email = ev.run.validated.email
        /\ ev.run.outputs[1].metadata.payload.kategorie = CategoryValue(ev.run.category)
        /\ ev.run.outputs[1].metadata.payload.anfrage = ev.run.original_message

\* A hardware order has reached a dispatcher that does not simulate, the POST
\* has failed and the run has ended with dispatch_error for that payload.
C21_Witness ==
    /\ TransportFailed(ev)
    /\ ev.run.category = HARDWARE
    /\ ev.run.outputs[1].status = "dispatch_error"
    /\ ev.run.outputs[1].metadata.payload.kategorie = CategoryValue(HARDWARE)

\* C22: whatever simulate_dispatch a request to the route asks for, its
\* workflow is built with a simulating dispatcher: the run posts nothing, a
\* dispatched request is answered completed with the payload recorded, and no
\* answer of the route has status dispatch_error.
C22_RouteAlwaysSimulates ==
    [][/\ ev'.op = "RouteEnter" =>
             /\ \A r \in BagToSet(inflight') : r.simulate_only
             /\ ev'.status # "dispatch_error"
       /\ ev'.op = "RouteResume" =>
             /\ ~ev'.posted
             /\ ev'.status # "dispatch_error"
             /\ (ev'.dispatched /\ ~ev'.raised) =>
                    /\ ev'.status = "completed"
                    /\ ev'.anfrage = ev'.context_original]_vars

\* A request with simulate_dispatch = false has been answered completed for a
\* dispatched ticket, without a POST.
C22_Witness ==
    /\ ev.op = "RouteResume"
    /\ ~ev.requested
    /\ ev.dispatched
    /\ ~ev.posted
    /\ ev.http = 200
    /\ ev.status = "completed"

\* The keys of the payload the dispatcher builds.
PayloadKeys == {"name", "vorname", "email", "kategorie", "zusammenfassung", "anfrage"}

\* A payload is the one built from a context.
PayloadOf(payload, context) ==
    /\ DOMAIN payload = PayloadKeys
    /\ payload.name = context.name
    /\ payload.vorname = context.vorname
    /\ payload.email = context.email
    /\ payload.kategorie = CategoryValue(context.category)
    /\ payload.zusammenfassung = context.summary
    /\ payload.anfrage = context.original_message

\* C23: the dispatcher of a run builds the payload, with exactly the six keys
\* and the values of the context it was given, when the category is one of
\* the four dispatchable ones, and puts it on the context it forwards or
\* into the dispatch_error response; for any other category it forwards the
\* context it was given as it is, dispatch_payload null, yields nothing and
\* makes no call.
C23_PayloadOnlyWhenDispatchable ==
    (IsRun(ev) /\ Ran(ev.run.trace, "dispatcher")) =>
        IF ev.run.dispatch_in.category \in {AI_HISTORY, O365, HARDWARE, LOGIN}
        THEN /\ ev.run.dispatch_in.dispatch_payload = None
             /\ IF ev.run.dispatch.kind = "send"
                THEN /\ PayloadOf(ev.run.dispatch.sent.dispatch_payload, ev.run.dispatch_in)
                     /\ ev.run.dispatch.out = << >>
                ELSE /\ ev.run.dispatch.kind = "yield"
                     /\ PayloadOf(ev.run.dispatch.out[1].metadata.payload,
                                  ev.run.dispatch_in)
        ELSE /\ ev.run.dispatch.kind = "send"
             /\ ev.run.dispatch.out = << >>
             /\ ev.run.dispatch.sent = ev.run.dispatch_in
             /\ ev.run.dispatch.sent.dispatch_payload = None
             /\ ~ev.run.dispatched

\* The dispatcher of the older workflow has been given a context of the
\* category "other" and has forwarded it without a payload.
C23_Witness ==
    /\ IsRun(ev)
    /\ Ran(ev.run.trace, "dispatcher")
    /\ ev.run.dispatch_in.category = SONSTIGES
    /\ ev.run.dispatch.kind = "send"
    /\ ev.run.dispatch.sent.dispatch_payload = None

(***************************************************************************)
(* The handlers and helpers on their own: one call per behaviour, on an     *)
(* input of a bounded set.                                                  *)
(***************************************************************************)
HandlerInit ==
    /\ deployment = [entry |-> "handlers", simulate_dispatch |-> TRUE]
    /\ _identity_state = << >>
    /\ _identity_state_by_message = << >>
    /\ inflight = EmptyBag
    /\ ev = NoEvent
    /\ cli = NoMain

\* What a call leaves in ev: the operation, its input and its result.
CallEvent(op, input, result) == [op |-> op, input |-> input, result |-> result]

\* Contexts for the formatter: every category and none, no answer text, an
\* empty one and one of the historian, with and without summary and payload.
FormatterContexts ==
    {[TicketContext(MsgLogin, <<"Schmidt">>, <<"Anna">>, <<"a", "@", "x", ".", "d", "e">>)
         EXCEPT !.category = category, !.summary = summary, !.response = response] :
        category \in {TicketCategory[i] : i \in 1..Len(TicketCategory)} \cup {None},
        summary \in {None, SummaryShort},
        response \in {None, << >>, <<"E", "L", "I", "Z", "A">>}}

\* ResponseFormatterExecutor.handle on a context, which carries a payload when
\* with_payload is true.
FormatContext(context, with_payload) ==
    /\ with_payload => context.category # None
    /\ \E given \in {IF with_payload
                       THEN [context EXCEPT !.dispatch_payload = DispatchPayload(context)]
                       ELSE context} :
          ev' = [CallEvent("Format", given, ResponseFormatterHandle(given))
                    EXCEPT !.op = IF with_payload THEN "FormatWithPayload" ELSE "Format"]
    /\ UNCHANGED <<cli, deployment, _identity_state, _identity_state_by_message, inflight>>

\* Category labels of the service: none, empty, blank, each canonical label as
\* it is, in lower case, in lower case between whitespace, after a blank, with
\* a letter appended, and a text that is no label.
RawCategories ==
    {None, << >>, <<" ">>, <<"V", "P", "N">>, <<"O", "3", "6", "5">>}
    \cup UNION {{CategoryValue(TicketCategory[i]),
                 Lower(CategoryValue(TicketCategory[i])),
                 Relabel(TicketCategory[i]),
                 <<" ">> \o CategoryValue(TicketCategory[i]),
                 CategoryValue(TicketCategory[i]) \o <<"x">>} :
                    i \in 1..Len(TicketCategory)}

\* ClassificationExecutor._map_category on a label
MapCategory(raw) ==
    /\ ev' = CallEvent("MapCategory", raw, _map_category(raw))
    /\ UNCHANGED <<cli, deployment, _identity_state, _identity_state_by_message, inflight>>

\* The largest number of words of a summary.
MaxWords == 11

\* A summary of n one-letter words, a, b, c, ..., each followed by the
\* separator.
RECURSIVE WordsText(_, _)
WordsText(n, separator) ==
    IF n = 0 THEN << >>
    ELSE WordsText(n - 1, separator) \o <<Lowers[n]>> \o separator

\* Summaries of up to MaxWords words: separated by one blank, by a blank and a
\* newline, and the same after a blank.
Summaries ==
    UNION {{WordsText(n, <<" ">>), WordsText(n, <<" ", "\n">>),
            <<" ">> \o WordsText(n, <<" ">>), <<"\n">> \o WordsText(n, <<"\n", " ">>)} :
               n \in 0..MaxWords}

\* ClassificationExecutor._enforce_summary_limit on a summary
EnforceSummaryLimit(summary) ==
    /\ ev' = CallEvent("EnforceSummaryLimit", summary, _enforce_summary_limit(summary))
    /\ UNCHANGED <<cli, deployment, _identity_state, _identity_state_by_message, inflight>>

\* Texts of the strict form, each with the segments it is made of: two
\* segments without address (first, second), a segment with an address, put
\* before, between or after them (position), and the comma with the
\* whitespace around it (comma).
StrictTexts ==
    {[first |-> first, second |-> second, segment |-> e[1], address |-> e[2],
      position |-> position,
      text |-> CASE position = 1 -> e[1] \o comma \o first \o comma \o second
                 [] position = 2 -> first \o comma \o e[1] \o comma \o second
                 [] position = 3 -> first \o comma \o second \o comma \o e[1]] :
        first \in {<<"M", "a", "i">>, <<"v", "o", "n", " ", "A">>},
        second \in {<<"H", "a", "n", "s">>},
        e \in {<<<<"h", "@", "x", ".", "d", "e">>, <<"h", "@", "x", ".", "d", "e">>>>,
               <<<<"H", "@", "X", ".", "d", "e">>, <<"H", "@", "X", ".", "d", "e">>>>,
               <<<<"a", "n", " ", "h", "@", "x", ".", "d", "e">>,
                 <<"h", "@", "x", ".", "d", "e">>>>},
        position \in 1..3,
        comma \in {<<",">>, <<",", " ">>, <<" ", ",", "\n">>, <<",", " ", ",">>}}

\* IdentityExtractorExecutor._apply_regex_fallback on a context without
\* identity fields and a text
RegexFallback(strict) ==
    /\ ev' = CallEvent("RegexFallback", strict,
                       _apply_regex_fallback(TicketContext(strict.text, None, None, None),
                                             <<"name", "vorname", "email">>, strict.text))
    /\ UNCHANGED <<cli, deployment, _identity_state, _identity_state_by_message, inflight>>

\* Segments of a reply: a name, a blank, nothing, an address, an address with
\* text before it and one with text after it.
ReplySegments ==
    {<<"M">>, <<" ">>, << >>, <<"h", "@", "x", ".", "d", "e">>,
     <<"a", " ", "h", "@", "x", ".", "d", "e">>,
     <<"h", "@", "x", ".", "d", "e", " ", "z">>}

\* Replies of two, three and four segments, with a comma or a comma and a blank
\* between them.
RECURSIVE JoinWith(_, _)
JoinWith(segments, comma) ==
    IF Len(segments) = 1 THEN segments[1]
    ELSE segments[1] \o comma \o JoinWith(Tail(segments), comma)

ReplyTexts ==
    {JoinWith(segments, comma) :
        segments \in UNION {[1..n -> ReplySegments] : n \in 2..4},
        comma \in {<<",">>, <<",", " ">>}}

\* IDENTITY_FORMAT_PATTERN.match(message.strip()) on a reply
MatchIdentityFormat(text) ==
    /\ ev' = CallEvent("IDENTITY_FORMAT_PATTERN", text, IDENTITY_FORMAT_PATTERN(Strip(text)))
    /\ UNCHANGED <<cli, deployment, _identity_state, _identity_state_by_message, inflight>>

\* Contexts that have passed the identity gate.
CompleteContexts ==
    {TicketContext(message, <<"M", "a", "i">>, <<"H", "a", "n", "s">>,
                   <<"h", "@", "x", ".", "d", "e">>) : message \in {MsgLogin, MsgHelp}}

\* A run at the point where the validation has forwarded the context.
AfterGate(context) ==
    [trace |-> << >>, outputs |-> << >>, raised |-> FALSE, extracted |-> None,
     classified |-> None, category |-> None, dispatched |-> FALSE, anfrage |-> None,
     original_message |-> context.original_message, validated |-> context,
     gate |-> Send(context), dispatch_in |-> None, dispatch |-> None,
     format_in |-> None]

\* The two workflows from the classification on, on the same context and with
\* the same answers of the outside world: the edges of the older workflow
\* (linear) and the switch-case edge group of the newer one (switched).
RunBothPipelines(context, simulate_only, llm) ==
    /\ ev' = CallEvent("RunBothPipelines",
                       [context |-> context, simulate_only |-> simulate_only, llm |-> llm],
                       [linear |-> RunClassificationLinear(context, simulate_only, llm,
                                                           AfterGate(context)),
                        switched |-> RunClassification(context, simulate_only, llm,
                                                       AfterGate(context))])
    /\ UNCHANGED <<cli, deployment, _identity_state, _identity_state_by_message, inflight>>

HandlerNext ==
    \/ /\ ev = NoEvent
       /\ \E context \in CompleteContexts, simulate_only \in BOOLEAN,
             classify \in PipelineClassifies, transport_ok \in BOOLEAN,
             historian \in {None, <<" ", "E", "L", "I", "Z", "A">>, HistorianRaise} :
             RunBothPipelines(context, simulate_only,
                              Replies(ExtractRaise, classify, historian, transport_ok))
    \/ /\ ev = NoEvent
       /\ \E strict \in StrictTexts : RegexFallback(strict)
    \/ /\ ev = NoEvent
       /\ \E text \in ReplyTexts : MatchIdentityFormat(text)
    \/ /\ ev = NoEvent
       /\ \E summary \in Summaries : EnforceSummaryLimit(summary)
    \/ /\ ev = NoEvent
       /\ \E context \in FormatterContexts, with_payload \in BOOLEAN :
             FormatContext(context, with_payload)
    \/ /\ ev = NoEvent
       /\ \E raw \in RawCategories : MapCategory(raw)

HandlerSpec == HandlerInit /\ [][HandlerNext]_vars

\* C24: for every context, the formatter yields exactly one response and
\* forwards nothing: unsupported with the fixed apology for the category
\* "other"; otherwise completed with the context's answer text, or with the
\* generic acknowledgment when the text is null or empty; in both cases the
\* metadata has the category label (null without category), the summary and
\* the dispatch payload of the context.
C24_FormatterResponse ==
    (ev.op \in {"Format", "FormatWithPayload"}) =>
        /\ ev.result.kind = "yield"
        /\ Len(ev.result.out) = 1
        /\ IF ev.input.category = SONSTIGES
           THEN /\ ev.result.out[1].status = "unsupported"
                /\ ev.result.out[1].message =
                       <<"Leider kann dieses System bei dieser Anfrage nicht helfen.">>
           ELSE /\ ev.result.out[1].status = "completed"
                /\ ev.result.out[1].message =
                       IF ev.input.response \in {None, << >>}
                       THEN <<"Deine Anfrage wurde aufgenommen. Wir melden uns so schnell wie möglich.">>
                       ELSE ev.input.response
        /\ DOMAIN ev.result.out[1].metadata = {"category", "summary", "dispatch_payload"}
        /\ ev.result.out[1].metadata.category =
               IF ev.input.category = None THEN None ELSE CategoryValue(ev.input.category)
        /\ ev.result.out[1].metadata.summary = ev.input.summary
        /\ IF ev.op = "FormatWithPayload"
           THEN PayloadOf(ev.result.out[1].metadata.dispatch_payload, ev.input)
           ELSE ev.result.out[1].metadata.dispatch_payload = None

\* The formatter has been given a context of a dispatchable category without
\* answer text and has answered completed with the acknowledgment.
C24_Witness ==
    /\ ev.op = "Format"
    /\ ev.input.category = HARDWARE
    /\ ev.input.response = None
    /\ ev.result.out[1].status = "completed"
    /\ ev.result.out[1].message =
           <<"Deine Anfrage wurde aufgenommen. Wir melden uns so schnell wie möglich.">>

\* A label names a category: it is a text that, without the whitespace at its
\* ends, equals the canonical label of the category when letter case is
\* ignored.
LabelNames(raw, category) ==
    /\ raw \notin {None, << >>}
    /\ Lower(Strip(raw)) = Lower(CategoryValue(category))

\* C25: the label mapping returns the member whose canonical label equals the
\* label of the service, trimmed, ignoring letter case, and "other" for every
\* other input, null and the empty text included.
C25_LabelMapping ==
    (ev.op = "MapCategory") =>
        /\ \A i \in 1..Len(TicketCategory) :
               LabelNames(ev.input, TicketCategory[i]) => ev.result = TicketCategory[i]
        /\ (\A i \in 1..Len(TicketCategory) : ~LabelNames(ev.input, TicketCategory[i]))
               => ev.result = SONSTIGES

\* The mapping has been given the label of the O365 category in lower case
\* and has returned that category.
C25_Witness ==
    /\ ev.op = "MapCategory"
    /\ ev.input = <<"o", "3", "6", "5", " ", "f", "r", "a", "g", "e">>
    /\ ev.result = O365

\* C25 as the specification states it: every text that is not a canonical
\* label up to letter case maps to "other".
C25_AsStated ==
    (ev.op = "MapCategory" /\ ev.input \notin {None, << >>}) =>
        /\ \A i \in 1..Len(TicketCategory) :
               Lower(ev.input) = Lower(CategoryValue(TicketCategory[i]))
                   => ev.result = TicketCategory[i]
        /\ (\A i \in 1..Len(TicketCategory) :
               Lower(ev.input) # Lower(CategoryValue(TicketCategory[i])))
               => ev.result = SONSTIGES

\* C26: the summary the limit returns has at most nine words.  Of a summary
\* of more than nine words it is the first nine, in order, joined by single
\* blanks, with nothing after the ninth; of a summary of nine or fewer words
\* it is the summary without the whitespace at its ends, all words kept.
C26_SummaryLimit ==
    (ev.op = "EnforceSummaryLimit") =>
        /\ Len(Split(ev.result)) <= 9
        /\ ev.result = Strip(ev.result)
        /\ IF Len(Split(ev.input)) > 9
           THEN /\ Split(ev.result) = SubSeq(Split(ev.input), 1, 9)
                /\ ev.result = Join(SubSeq(Split(ev.input), 1, 9))
           ELSE /\ Split(ev.result) = Split(ev.input)
                /\ ev.result = Strip(ev.input)

\* A summary of eleven words has been cut to its first nine.
C26_Witness ==
    /\ ev.op = "EnforceSummaryLimit"
    /\ Len(Split(ev.input)) = 11
    /\ ev.result = <<"a", " ", "b", " ", "c", " ", "d", " ", "e", " ", "f", " ",
                     "g", " ", "h", " ", "i">>

\* C27: every response the route returns for a request with a thread_id has
\* that thread_id in its metadata, whatever its status: waiting_for_identity,
\* which is given when the stored state is waiting and carries the stored
\* original message, and missing_identity, completed and unsupported after a
\* run.
C27_RouteEchoesThreadId ==
    [][(ev'.op \in {"RouteEnter", "RouteResume"} /\ ev'.http = 200
                                               /\ Truthy(ev'.thread_id)) =>
          /\ ev'.meta_thread_id = ev'.thread_id
          /\ ev'.status \in {"missing_identity", "waiting_for_identity",
                             "completed", "unsupported"}
          /\ ev'.status = "waiting_for_identity" =>
                /\ ev'.op = "RouteEnter"
                /\ ev'.waiting
                /\ ev'.meta_original_message = ev'.parked]_vars

\* A request with a thread_id has been answered unsupported, with the
\* thread_id in the metadata.
C27_Witness ==
    /\ ev.op = "RouteResume"
    /\ ev.http = 200
    /\ ev.status = "unsupported"
    /\ Truthy(ev.thread_id)
    /\ ev.meta_thread_id = ev.thread_id

\* The fields of a TicketInput that are given: neither null nor empty.
SuppliedFields(ticket_input) ==
    {attr \in {"name", "vorname", "email"} : Truthy(FieldOf(ticket_input, attr))}

\* A text of whitespace only.
IsBlank(value) == Truthy(value) /\ Strip(value) = << >>

\* C28: a field given with the request reaches the validation as it was
\* given, unless it is blank; a blank one is unchanged in the newer workflow,
\* and is unchanged or null in the older one.  When all three fields are
\* given, the extraction service is not called and the validation forwards
\* the context.
C28_SuppliedFieldsKept ==
    IsRun(ev) =>
        /\ \A attr \in SuppliedFields(ev.input) :
               \/ FieldOf(ev.run.validated, attr) = FieldOf(ev.input, attr)
               \/ /\ IsBlank(FieldOf(ev.input, attr))
                  /\ ev.op = "ObungiWorkflowRun"
                  /\ FieldOf(ev.run.validated, attr) = None
        /\ SuppliedFields(ev.input) = {"name", "vorname", "email"} =>
               /\ ev.run.extracted = None
               /\ ev.run.gate.kind = "send"

\* A run of the newer workflow was given a name and no vorname, the
\* extraction service has answered with another name and a vorname, and the
\* context has the name that was given.
C28_Witness ==
    /\ ev.op = "WorkflowRun"
    /\ ev.input.name = <<"M", "a", "i">>
    /\ ev.input.vorname = None
    /\ ev.run.extracted # None
    /\ ~ev.llm.extract.raised
    /\ ev.llm.extract.name = <<"A", "b", "t">>
    /\ ev.run.validated.name = <<"M", "a", "i">>
    /\ ev.run.validated.vorname = <<"E", "v", "a">>

\* C28 as the specification states it: every field given with the request
\* reaches the validation unchanged.
C28_AsStated ==
    IsRun(ev) =>
        \A attr \in SuppliedFields(ev.input) :
            FieldOf(ev.run.validated, attr) = FieldOf(ev.input, attr)

\* C29: of a text of three non-empty comma-separated segments, one of which
\* holds an address, the extraction makes the email that address, in lower
\* case, the name the first of the two other segments and the vorname the
\* second, wherever the segment with the address stands.
C29_StrictForm ==
    (ev.op = "RegexFallback") =>
        /\ ev.result.email = Lower(ev.input.address)
        /\ ev.result.name = ev.input.first
        /\ ev.result.vorname = ev.input.second
        /\ ev.result.original_message = ev.input.text

\* The extraction has been given a text whose first segment is the address
\* and has assigned the second segment to the name and the third to the
\* vorname.
C29_Witness ==
    /\ ev.op = "RegexFallback"
    /\ ev.input.position = 1
    /\ ev.input.text = <<"H", "@", "X", ".", "d", "e", ",", " ", "M", "a", "i", ",", " ",
                         "H", "a", "n", "s">>
    /\ ev.result.email = <<"h", "@", "x", ".", "d", "e">>
    /\ ev.result.name = <<"M", "a", "i">>
    /\ ev.result.vorname = <<"H", "a", "n", "s">>

\* The extraction service gives nothing for a field: its call fails, or its
\* answer has no value for the field, a blank one, or, for the email, a text
\* without address.
NothingFor(extract, attr) ==
    \/ extract.raised
    \/ ~Truthy(FieldOf(extract, attr))
    \/ Strip(FieldOf(extract, attr)) = << >>
    \/ attr = "email" /\ EmailSearch(Strip(extract.email)) = None

\* No pattern of the older extractor matches a text: it is at most one word
\* and has no address, comma or label.
NoPatternIn(message) ==
    /\ Len(Split(message)) <= 1
    /\ \A i \in 1..Len(message) : message[i] \notin {"@", ",", ":", "-"}

\* C30: the extraction never ends a run with an exception: its context always
\* reaches the validation.  A field that was not given, that no pattern
\* finds and for which the service gives nothing stays without value, and the
\* validation then ends the run with the one response missing_identity.
C30_ExtractionNeverFails ==
    IsRun(ev) =>
        /\ Ran(ev.run.trace, "validation")
        /\ Ran(ev.run.trace, "classification") \/ ~ev.run.raised
        /\ \A attr \in {"name", "vorname", "email"} :
               (/\ ~Truthy(FieldOf(ev.input, attr))
                /\ NothingFor(ev.llm.extract, attr)
                /\ NoPatternIn(ev.input.message))
               => /\ ~Truthy(FieldOf(ev.run.validated, attr))
                  /\ ~ev.run.raised
                  /\ LastStage(ev.run.trace) = "validation"
                  /\ Len(ev.run.outputs) = 1
                  /\ ev.run.outputs[1].status = "missing_identity"

\* The extraction service has been called, its call has failed, and the run
\* has ended with missing_identity.
C30_Witness ==
    /\ IsRun(ev)
    /\ ev.run.extracted # None
    /\ ev.llm.extract.raised
    /\ ev.input.name = None
    /\ ev.run.validated.name = None
    /\ LastStage(ev.run.trace) = "validation"
    /\ ev.run.outputs[1].status = "missing_identity"

\* The state the store holds for a thread_id after the step.
StoredNext(thread_id) ==
    get_thread_state(_identity_state', _identity_state_by_message', thread_id, None)

\* C31: in the route, a thread that is waiting with an original message is
\* waiting with the same message after every step, except a step in which a
\* request that resumed the thread ends with a status other than
\* missing_identity.
C31_WaitingUntilResolved ==
    [][\A thread_id \in ThreadIds :
          (deployment.entry = "http" /\ Stored(thread_id).waiting_for_identity) =>
              \/ /\ StoredNext(thread_id).waiting_for_identity
                 /\ StoredNext(thread_id).original_message =
                        Stored(thread_id).original_message
              \/ /\ ev'.op = "RouteResume"
                 /\ ev'.thread_id = thread_id
                 /\ ev'.resumed
                 /\ ev'.status \notin {"missing_identity", "none"}]_vars

\* The entries of a dict of the store that are waiting.
WaitingEntries(d) ==
    {d[i][2] : i \in {j \in 1..Len(d) : d[j][2].waiting_for_identity}}

\* C32: in every state of the store, each entry that is waiting for the
\* identity, in the dict by thread_id and in the dict by message, holds a
\* non-empty original message.
C32_ParkedNonEmpty ==
    \A state \in WaitingEntries(_identity_state)
                  \cup WaitingEntries(_identity_state_by_message) :
        Truthy(state.original_message)

\* A request or call whose run raised an exception or yielded no output: the
\* route answers it with HTTP 500, the tools with status error.
RunFailed(e) ==
    /\ e.ran
    /\ \/ e.raised
       \/ e.http = 500
       \/ e.status = "error"

\* C33: a request or call whose run raised or yielded nothing writes nothing:
\* both dicts of the store are after it as they were before it, so a thread
\* that was waiting is waiting with the same original message and a thread that
\* was idle is idle.
C33_FailedRunLeavesStore ==
    [][RunFailed(ev') =>
          /\ _identity_state' = _identity_state
          /\ _identity_state_by_message' = _identity_state_by_message
          /\ \A thread_id \in ThreadIds :
                 /\ StoredNext(thread_id).waiting_for_identity =
                        Stored(thread_id).waiting_for_identity
                 /\ StoredNext(thread_id).original_message =
                        Stored(thread_id).original_message]_vars

\* A request of the route that resumed a waiting thread has ended with an
\* exception of its run, and the thread is waiting with the message it held
\* when the request read it.
C33_Witness ==
    /\ ev.op = "RouteResume"
    /\ RunFailed(ev)
    /\ ev.resumed
    /\ ~ev.overtaken
    /\ Stored(ev.thread_id).waiting_for_identity
    /\ Stored(ev.thread_id).original_message = ev.parked
    /\ Truthy(ev.parked)

\* The items of a dict under the keys other than the given one.
OtherItems(d, key) == {d[i] : i \in {j \in 1..Len(d) : d[j][1] # key}}

\* The key of _identity_state a call or request belongs to: the thread_id, in
\* the older tool the state key of the thread_id or of the parked message.
SessionKey(e) ==
    IF deployment.entry = "obungi_tool"
    THEN _get_state_key(e.thread_id, OriginalMsg(e.arg, e.message))
    ELSE e.thread_id

\* The key of _identity_state_by_message a call without thread_id belongs to.
SessionMessageKey(e) == _hash_message(OriginalMsg(e.input_original, e.message))

\* C34: a request or call whose run ends with status completed changes at most
\* the entry of its own session key: every entry under another key, in either
\* dict, is after it what it was before it.
C34_CompletionClearsOwnKeyOnly ==
    [][(ev'.ran /\ ev'.status = "completed") =>
          /\ OtherItems(_identity_state', SessionKey(ev')) =
                 OtherItems(_identity_state, SessionKey(ev'))
          /\ OtherItems(_identity_state_by_message', SessionMessageKey(ev')) =
                 OtherItems(_identity_state_by_message, SessionMessageKey(ev'))]_vars

\* The segments of a reply between its commas.
Segments(text) == SplitCommaFrom(text, << >>, << >>)

\* Some part of the text is an email address.
HasEmail(text) == EmailMatches(text) # {}

\* C35: the strict format accepts a trimmed reply only if it has exactly three
\* segments between commas, each non-empty after trimming, the third segment
\* is, trimmed, an email address from its start to its end, and there is no
\* email address in the first or the second segment.
C35_ThreeSegmentsOneEmail ==
    (ev.op = "IDENTITY_FORMAT_PATTERN" /\ ev.result) =>
        \E segments \in {Segments(Strip(ev.input))} :
            /\ Len(segments) = 3
            /\ \A i \in 1..3 : Strip(segments[i]) # << >>
            /\ MatchesEmail(Strip(segments[3]))
            /\ ~HasEmail(segments[1])
            /\ ~HasEmail(segments[2])

\* C36: on every context that has passed the identity gate, with every answer
\* of the classification, of the historian and of the POST, the linear pipeline
\* and the switch-routed pipeline end alike: both raise or neither does, both
\* yield the same number of responses, and the terminal responses have the
\* same status, message and payload.
C36_SameTerminalResponse ==
    ev.op = "RunBothPipelines" =>
        /\ ev.result.linear.raised = ev.result.switched.raised
        /\ Len(ev.result.linear.outputs) = Len(ev.result.switched.outputs)
        /\ ev.result.linear.outputs # << >> =>
               /\ TerminalResponse(ev.result.linear).status =
                      TerminalResponse(ev.result.switched).status
               /\ TerminalResponse(ev.result.linear).message =
                      TerminalResponse(ev.result.switched).message
               /\ TerminalResponse(ev.result.linear).payload =
                      TerminalResponse(ev.result.switched).payload

\* Both pipelines have run on a context of the category "other": the linear
\* one through historian and dispatcher, the switched one straight to the
\* formatter, and both have yielded the response unsupported.
C36_Witness ==
    /\ ev.op = "RunBothPipelines"
    /\ ev.result.linear.category = SONSTIGES
    /\ ev.result.linear.trace =
           <<"classification", "historian", "dispatcher", "response_formatter">>
    /\ ev.result.switched.trace = <<"classification", "response_formatter">>
    /\ Len(ev.result.switched.outputs) = 1
    /\ TerminalResponse(ev.result.linear).status = "unsupported"
    /\ TerminalResponse(ev.result.switched).status = "unsupported"

(***************************************************************************)
(* The command line of obungi_chat_agents_system (cli.py): main reads a     *)
(* ticket, runs the older workflow on it, asks for the fields a             *)
(* missing_identity response names and runs the workflow again, until a     *)
(* response of another status is rendered; then it reads the next ticket.   *)
(***************************************************************************)
\* Bound of the model on the calls of workflow.run for one ticket.
MaxRuns == 6

\* Messages collect_ticket_message returns: stripped and not empty.
CliMessages == {MsgLogin, MsgHelp}

\* What the user types at a prompt: a blank line, a name, an address with
\* blanks around it.
PromptValues == {<<" ">>, <<"X">>, <<" ", "h", "@", "x", ".", "d", "e", " ">>}

\* Answers of the outside world in a run the command line starts: the
\* extraction fails or finds nothing, one, two or three fields; the
\* classification fails or names the login category or the category "other".
CliReplies ==
    {Replies(x, c, None, t) :
        x \in PipelineExtracts
               \cup {ExtractReply(<<"A", "b", "t">>, <<"E", "v", "a">>, None)},
        c \in {ClassifyRaise,
               ClassifyReply("dict", Relabel(LOGIN), SummaryShort, None),
               ClassifyReply("dict", Relabel(SONSTIGES), SummaryShort, None)},
        t \in BOOLEAN}

\* response.metadata.get("missing_fields", []), of a response missing_identity,
\* whose metadata is a dict
CliMissingFields(response) ==
    IF "missing_fields" \in DOMAIN response.metadata
    THEN response.metadata.missing_fields ELSE << >>

\* The TicketInput values main builds, and for each of them and each answer of
\* the outside world the status of the response run_ticket_flow returns
\* ("none" for no response or an exception) and the missing fields it names,
\* computed once.
PromptAnswers == {None} \cup ({Strip(value) : value \in PromptValues} \ {<< >>})

CliInputs ==
    {TicketInput(message, name, vorname, email, None) :
        message \in CliMessages, name \in PromptAnswers, vorname \in PromptAnswers,
        email \in PromptAnswers}

CliRuns ==
    [simulate_only \in BOOLEAN |-> [ticket_input \in CliInputs |->
     [llm \in CliReplies |->
         With(ObungiWorkflowRun(ticket_input, simulate_only, llm), LAMBDA run :
              [status |-> RunStatus(run),
               missing_fields |-> IF RunStatus(run) = "missing_identity"
                                  THEN CliMissingFields(TerminalResponse(run))
                                  ELSE << >>])]]]

CliInit ==
    /\ deployment \in {[entry |-> "cli", simulate_dispatch |-> b] : b \in BOOLEAN}
    /\ _identity_state = << >>
    /\ _identity_state_by_message = << >>
    /\ inflight = EmptyBag
    /\ ev = NoEvent
    /\ cli = Main("collect", None, NoKnownFields, << >>, << >>, 0, "none")

\* Lines 208-220: collect_ticket_message has returned; known_fields is reset.
CliCollect(message) ==
    /\ cli.pc = "collect"
    /\ cli' = Main("run", message, NoKnownFields, << >>, << >>, 0, cli.rendered)
    /\ UNCHANGED <<deployment, _identity_state, _identity_state_by_message, inflight, ev>>

\* Lines 209-212 and 228-230: KeyboardInterrupt while the message is read or
\* while the workflow runs; main returns.
CliInterrupt ==
    /\ cli.pc \in {"collect", "run"}
    /\ cli' = [cli EXCEPT !.pc = "exit"]
    /\ UNCHANGED <<deployment, _identity_state, _identity_state_by_message, inflight, ev>>

\* Lines 221-263: one pass of the inner loop, from TicketInput to continue,
\* break or return.  An exception of the run other than KeyboardInterrupt
\* leaves main.
CliRun(llm) ==
    /\ cli.pc = "run"
    /\ cli.runs < MaxRuns
    /\ \E response \in {CliRuns[deployment.simulate_dispatch]
                                [TicketInput(cli.message, cli.known_fields.name,
                                             cli.known_fields.vorname,
                                             cli.known_fields.email, None)][llm]} :
           cli' = IF response.status = "none"
                  THEN [cli EXCEPT !.pc = "exit", !.runs = @ + 1]
                  ELSE IF response.status # "missing_identity"
                  THEN [cli EXCEPT !.pc = "collect", !.runs = @ + 1,
                                   !.rendered = response.status]
                  ELSE IF response.missing_fields = << >>
                  THEN [cli EXCEPT !.pc = "exit", !.runs = @ + 1]
                  ELSE [cli EXCEPT !.pc = "prompt", !.runs = @ + 1,
                                   !.pending = response.missing_fields,
                                   !.collected = << >>]
    /\ UNCHANGED <<deployment, _identity_state, _identity_state_by_message, inflight, ev>>

\* known_fields[key] = value for every item of updates
RECURSIVE ApplyUpdates(_, _)
ApplyUpdates(known_fields, updates) ==
    IF updates = << >> THEN known_fields
    ELSE ApplyUpdates([known_fields EXCEPT ![Head(updates)[1]] = Head(updates)[2]],
                      Tail(updates))

\* prompt_missing_fields, lines 175-190, one answer of the user: a blank answer
\* is asked again, another one is collected, stripped; after the last field
\* main puts the collected values into known_fields (lines 257-260).
CliPrompt(value) ==
    /\ cli.pc = "prompt"
    /\ IF Strip(value) = << >>
       THEN cli' = cli
       ELSE \E collected \in {DictSet(cli.collected, Head(cli.pending), Strip(value))} :
                cli' = IF Tail(cli.pending) # << >>
                       THEN [cli EXCEPT !.pending = Tail(@), !.collected = collected]
                       ELSE [cli EXCEPT !.pc = "run", !.pending = << >>,
                                        !.collected = << >>,
                                        !.known_fields = ApplyUpdates(@, collected)]
    /\ UNCHANGED <<deployment, _identity_state, _identity_state_by_message, inflight, ev>>

CliNext ==
    \/ \E message \in CliMessages : CliCollect(message)
    \/ \E llm \in CliReplies : CliRun(llm)
    \/ \E value \in PromptValues : CliPrompt(value)
    \/ CliInterrupt

\* The steps main takes when the workflow call returns and the user answers:
\* a run, or an answer to a prompt.
CliStep ==
    \/ \E llm \in CliReplies : CliRun(llm)
    \/ \E value \in PromptValues : CliPrompt(value)

\* asyncio.run(run_ticket_flow(...)) returns or raises, and Prompt.ask returns
\* what the user has typed: main is not held up inside the loop for ever.
CliSpec == CliInit /\ [][CliNext]_vars /\ WF_vars(CliStep)

\* One step of main inside the loop of a ticket: no known field loses or
\* changes its value; the fields a missing_identity response asks for are
\* fields without known value; and a round of prompts gives at least one
\* field without known value a non-empty one.
CliLoopProgress ==
    /\ cli.pc \in {"run", "prompt"} =>
           \A field \in DOMAIN cli.known_fields :
               Truthy(cli.known_fields[field]) =>
                   cli'.known_fields[field] = cli.known_fields[field]
    /\ (cli.pc = "run" /\ cli'.pc = "prompt") =>
           /\ cli'.pending # << >>
           /\ \A i \in 1..Len(cli'.pending) :
                  ~Truthy(cli.known_fields[cli'.pending[i]])
    /\ (cli.pc = "prompt" /\ cli'.pc = "run") =>
           \E field \in DOMAIN cli.known_fields :
               /\ ~Truthy(cli.known_fields[field])
               /\ Truthy(cli'.known_fields[field])

====
